---- MODULE Spec2Model ----
(***************************************************************************)
(* The IR encoder of mir-json (src/analyz/ty_json.rs): the translators     *)
(* that turn rustc's types, constants, generics, predicates, associated    *)
(* items and aggregate definitions into JSON, as a state machine over the  *)
(* encoder's only mutable state, the used-types side-table of MirState;    *)
(* and the rustc wrapper (src/bin/mir-json-rustc-wrapper.rs), whose        *)
(* exporting compilations run the encoder after analysis.                  *)
(*                                                                         *)
(* A JSON object is a TLA+ record, a JSON array a sequence, a JSON string  *)
(* a string, a JSON number a number.  Every encoder takes the side-table   *)
(* `ms` and returns [ok, j, ms]: the JSON it built and the side-table it   *)
(* left, or ok = FALSE when the Rust code panics (the pass aborts).        *)
(***************************************************************************)
EXTENDS Integers, Sequences, FiniteSets, TLC

VARIABLES
    used_types,   \* MirState.used_types: the DefIds of the referenced ADTs
    call,         \* the encoder entry point last called, with its argument
    ret,          \* what that call returned: [ok, j]
    aborted,      \* a panic has unwound the pass
    argv,         \* the wrapper: std::env::args().skip(1) as the process got it
    library_path, \* the wrapper: env::var("CRUX_RUST_LIBRARY_PATH")
    args,         \* the wrapper: the argument vector go() builds
    pc,           \* the wrapper: the position of go()
    test_idx,     \* the wrapper: where "--test" stands in args, 0 for None
    test_path,    \* the wrapper: the path of the test binary (callbacks.output_path)
    data,         \* the wrapper: callbacks.analysis_data of the test build
    steps         \* the wrapper: what it ran and wrote so far, in order

evars == <<used_types, call, ret, aborted>>

wvars == <<argv, library_path, args, pc, test_idx, test_path, data, steps>>

vars == <<evars, wvars>>

(***************************************************************************)
(* Bounds of the model.                                                    *)
(***************************************************************************)
MaxOwn == 2        \* longest own parameter / predicate list of an input
MaxDepth == 2      \* deepest nesting of the wrapped types
MaxRead == 3       \* longest byte range asked of read_static_memory
MaxOffset == 5     \* largest offset asked of read_static_memory
MaxArgs == 3       \* longest argument vector handed to the wrapper

(***************************************************************************)
(* Results.                                                                *)
(***************************************************************************)
Ok(j, ms) == [ok |-> TRUE, j |-> j, ms |-> ms]

Panicked(ms) == [ok |-> FALSE, j |-> [panic |-> TRUE], ms |-> ms]

None == "None"

(***************************************************************************)
(* The compiler context (tcx) of the crate being encoded.  DefIds are      *)
(* handles; def_path gives the crate-relative path string of each.         *)
(***************************************************************************)
AdtDids == {"Unit", "Pair", "Opt", "Buf"}

DefPathTable ==
    [Unit |-> "::Unit[0]", Pair |-> "::Pair[0]", Opt |-> "::Opt[0]",
     Buf |-> "::Buf[0]", Ord |-> "::Ord[0]",
     Ord_Lt |-> "::Ord[0]::Lt[0]", Ord_Eq |-> "::Ord[0]::Eq[0]",
     Ord_Lt_discr |-> "::Ord[0]::Lt[0]::{{constant}}[0]",
     Opt_None |-> "::Opt[0]::None[0]", Opt_Some |-> "::Opt[0]::Some[0]",
     Pair_a |-> "::Pair[0]::a[0]", Pair_b |-> "::Pair[0]::b[0]",
     Opt_Some_0 |-> "::Opt[0]::Some[0]::0[0]",
     Buf_next |-> "::Buf[0]::next[0]", Buf_data |-> "::Buf[0]::data[0]",
     Tr |-> "::Tr[0]", Tr_f |-> "::Tr[0]::f[0]", Tr_Out |-> "::Tr[0]::Out[0]",
     Tr_N |-> "::Tr[0]::N[0]", Tr_f_closure |-> "::Tr[0]::f[0]::{{closure}}[0]",
     Dup |-> "::Dup[0]", Dup_g_ty |-> "::Dup[0]::g[0]", Dup_g_fn |-> "::Dup[0]::g[1]",
     ImplTr |-> "::{{impl}}[0]", ImplTr_f |-> "::{{impl}}[0]::f[0]",
     ImplTr_Out |-> "::{{impl}}[0]::Out[0]", ImplTr_N |-> "::{{impl}}[0]::N[0]",
     ImplPair |-> "::{{impl}}[1]", ImplPair_new |-> "::{{impl}}[1]::new[0]",
     ImplPair_W |-> "::{{impl}}[1]::W[0]",
     ImplDup |-> "::{{impl}}[2]", ImplDup_g |-> "::{{impl}}[2]::g[0]",
     LEN |-> "::LEN[0]", HI |-> "::HI[0]", BAD |-> "::BAD[0]", GEN |-> "::GEN[0]",
     foo |-> "::foo[0]",
     Tr_A |-> "::Tr[0]::A[0]", Tr_f_B |-> "::Tr[0]::f[0]::B[0]",
     Pair_A |-> "::Pair[0]::A[0]", Pair_B |-> "::Pair[0]::B[0]",
     Opt_T |-> "::Opt[0]::T[0]",
     ImplPair_A |-> "::{{impl}}[1]::A[0]", ImplPair_B |-> "::{{impl}}[1]::B[0]",
     P |-> "::P[0]", Q |-> "::Q[0]"]

DefIds == DOMAIN DefPathTable

\* tx.def_path(d).to_string_no_crate()
defid_str(d) == DefPathTable[d]

\* impl ToJson for DefId
defid_to_json(d) == DefPathTable[d]

\* basic_json_enum_impl!: the Debug name of the enum value under "kind"
basic_json_enum(name) == [kind |-> name]

(***************************************************************************)
(* u128 and i128: sixteen bytes, least significant first.  TLC's integers  *)
(* are 32 bits wide, so the 128-bit arithmetic of render_constant is done  *)
(* on the bytes.                                                           *)
(***************************************************************************)
U128Bytes == 16

UsizeBytes == 8

ByteIdx == 1..U128Bytes


\* the u128 of a small number (n < 2^24)
U128(n) == [i \in ByteIdx |-> IF i <= 3 THEN (n \div (256 ^ (i - 1))) % 256 ELSE 0]

AllOnes128 == [i \in ByteIdx |-> 255]

RECURSIVE and8(_, _, _)
and8(a, b, k) ==
    IF k = 0 THEN 0
    ELSE (a % 2) * (b % 2) + 2 * and8(a \div 2, b \div 2, k - 1)

RECURSIVE or8(_, _, _)
or8(a, b, k) ==
    IF k = 0 THEN 0
    ELSE ((a % 2) + (b % 2) - (a % 2) * (b % 2)) + 2 * or8(a \div 2, b \div 2, k - 1)

And128(x, y) == [i \in ByteIdx |-> and8(x[i], y[i], 8)]

Or128(x, y) == [i \in ByteIdx |-> or8(x[i], y[i], 8)]

\* x << n for 0 <= n < 128, the bits shifted out at the top dropped
Shl128(x, n) ==
    LET q == n \div 8
        r == n % 8
        at(i) == IF i >= 1 THEN x[i] ELSE 0
    IN  [i \in ByteIdx |->
            ((at(i - q) * (2 ^ r)) % 256) + ((at(i - q - 1) * (2 ^ r)) \div 256)]

IsZero128(x) == \A i \in ByteIdx : x[i] = 0

\* two's complement negation: !x + 1
RECURSIVE NegCarry(_, _, _)
NegCarry(x, i, carry) ==
    IF i > U128Bytes THEN <<>>
    ELSE LET s == (255 - x[i]) + carry
         IN  <<s % 256>> \o NegCarry(x, i + 1, s \div 256)

Neg128(x) == NegCarry(x, 1, 1)

\* one pass of long division by 10^6, most significant byte first: the
\* quotient's bytes (least significant first) and the remainder
RECURSIVE DivChunk(_, _, _, _)
DivChunk(x, i, rem, acc) ==
    IF i = 0 THEN [q |-> acc, r |-> rem]
    ELSE DivChunk(x, i - 1, (rem * 256 + x[i]) % 1000000,
                  <<(rem * 256 + x[i]) \div 1000000>> \o acc)

DigitChar == <<"0", "1", "2", "3", "4", "5", "6", "7", "8", "9">>

\* the decimal digits of n, at least k of them
RECURSIVE NatDigits(_, _)
NatDigits(n, k) ==
    IF n = 0 /\ k <= 0 THEN ""
    ELSE NatDigits(n \div 10, k - 1) \o DigitChar[(n % 10) + 1]

\* the decimal digits of x, six at a time, none for zero
RECURSIVE Digits128(_)
DigitsOf(d) ==
    IF IsZero128(d.q) THEN NatDigits(d.r, 0)
    ELSE Digits128(d.q) \o NatDigits(d.r, 6)

Digits128(x) == DigitsOf(DivChunk(x, U128Bytes, 0, <<>>))

\* u128::to_string
u128_to_string(x) == IF IsZero128(x) THEN "0" ELSE Digits128(x)

\* i128::to_string of the i128 with these bits
i128_to_string(x) ==
    IF x[U128Bytes] >= 128 THEN "-" \o Digits128(Neg128(x))
    ELSE u128_to_string(x)

\* `bits as usize`: the low bytes of the u128, as a number the model can
\* count with: the lengths the model reads are below 2^16, anything larger is
\* longer than every allocation
u128_as_len(x) ==
    IF \A i \in 3..UsizeBytes : x[i] = 0 THEN x[1] + 256 * x[2] ELSE 65536

(***************************************************************************)
(* rustc's types (ty::TyKind), substitution entries (subst::Kind),         *)
(* signatures and constants (ty::Const, interpret::ConstValue).            *)
(***************************************************************************)
TBool == [sty |-> "Bool"]

TChar == [sty |-> "Char"]

TStr == [sty |-> "Str"]

TNever == [sty |-> "Never"]

TInt(k) == [sty |-> "Int", int |-> k]

TUint(k) == [sty |-> "Uint", uint |-> k]

TFloat(k) == [sty |-> "Float", float |-> k]

TParam(i) == [sty |-> "Param", idx |-> i]

TTuple(tys) == [sty |-> "Tuple", tys |-> tys]

TSlice(t) == [sty |-> "Slice", ty |-> t]

TArray(t, size) == [sty |-> "Array", ty |-> t, size |-> size]

TRef(t, m) == [sty |-> "Ref", ty |-> t, mutbl |-> m]

TRawPtr(t, m) == [sty |-> "RawPtr", ty |-> t, mutbl |-> m]

TAdt(did, substs) == [sty |-> "Adt", did |-> did, substs |-> substs]

TFnDef(did, substs) == [sty |-> "FnDef", did |-> did, substs |-> substs]

TClosure(did, substs) == [sty |-> "Closure", did |-> did, substs |-> substs]

TDynamic(principal) == [sty |-> "Dynamic", principal |-> principal]

TProjection(did, substs) == [sty |-> "Projection", did |-> did, substs |-> substs]

TUnnormalizedProjection(did, substs) ==
    [sty |-> "UnnormalizedProjection", did |-> did, substs |-> substs]

TFnPtr(sig) == [sty |-> "FnPtr", sig |-> sig]

TOther(k) == [sty |-> k]

FnSig(inputs, output) == [inputs |-> inputs, output |-> output]

KType(t) == [k |-> "Type", ty |-> t]

KLifetime == [k |-> "Lifetime"]

Bits(size, bits) == [s |-> "Bits", size |-> size, bits |-> bits]

Ptr(alloc_id, offset) == [s |-> "Ptr", alloc_id |-> alloc_id, offset |-> offset]

VScalar(a) == [v |-> "Scalar", a |-> a]

VScalarPair(a, b) == [v |-> "ScalarPair", a |-> a, b |-> b]

VUnevaluated(def_id, substs) == [v |-> "Unevaluated", def_id |-> def_id, substs |-> substs]

VByRef == [v |-> "ByRef"]

Const(ty, val) == [ty |-> ty, val |-> val]

Usize(n) == Const(TUint("Usize"), VScalar(Bits(UsizeBytes, U128(n))))

\* Option<T>
Some(x) == [some |-> TRUE, x |-> x]

NoneOpt == [some |-> FALSE]

(***************************************************************************)
(* tcx.alloc_map: the global allocations of the crate.  A relocation is    *)
(* the byte range [from, to) that a pointer stored in the allocation       *)
(* occupies.                                                               *)
(***************************************************************************)
AllocMap ==
    [a_hi    |-> [bytes |-> <<104, 105>>, relocations |-> {}],
     a_bytes |-> [bytes |-> <<1, 2, 3>>, relocations |-> {}],
     a_long  |-> [bytes |-> <<10, 11, 12, 13, 14>>, relocations |-> {}],
     a_mixed |-> [bytes |-> <<7, 8, 9, 0, 0, 0, 0, 0, 0, 0, 0, 0>>,
                  relocations |-> {[from |-> 4, to |-> 12]}]]

AllocIds == DOMAIN AllocMap

(***************************************************************************)
(* The evaluation engine: Instance::resolve and tcx.const_eval, by the     *)
(* constant's definition and substitution.                                 *)
(***************************************************************************)
HasParam(substs) ==
    \E i \in 1..Len(substs) : substs[i].k = "Type" /\ substs[i].ty.sty = "Param"

\* Instance::resolve(tcx, reveal_all, def_id, substs): a trait's associated
\* constant resolves to an impl's only once Self is known
InstanceResolve(def_id, substs) ==
    IF def_id = "Tr_N" /\ HasParam(substs) THEN NoneOpt
    ELSE Some([def_id |-> def_id, substs |-> substs])

\* tcx.const_eval(param_env.and(cid)): Ok(value) or Err
ConstEval(instance) ==
    CASE instance.def_id = "LEN" -> Some(Usize(3))
      [] instance.def_id = "Tr_N" -> Some(Usize(2))
      [] instance.def_id = "GEN" ->
            IF HasParam(instance.substs) THEN NoneOpt ELSE Some(Usize(1))
      [] instance.def_id = "HI" ->
            Some(Const(TRef(TStr, "MutImmutable"),
                       VScalarPair(Ptr("a_hi", 0), Bits(UsizeBytes, U128(2)))))
      [] OTHER -> NoneOpt

\* `let x = e;` and what follows it
Let(x, K(_)) == K(x)

\* fn do_const_eval: both unwraps
do_const_eval(def_id, substs) ==
    Let(InstanceResolve(def_id, substs), LAMBDA instance :
    IF ~instance.some THEN [ok |-> FALSE]
    ELSE Let(ConstEval(instance.x), LAMBDA c :
         IF ~c.some THEN [ok |-> FALSE] ELSE [ok |-> TRUE, c |-> c.x]))

\* the match on c.val were it to take every constant as it stands
evaluated_of_unforced(c) == [ok |-> TRUE, c |-> c]

\* the evaluated constant: Unevaluated is forced, anything else is itself
evaluated_of(c) ==
    IF c.val.v = "Unevaluated" THEN do_const_eval(c.val.def_id, c.val.substs)
    ELSE [ok |-> TRUE, c |-> c]

\* the assertion left out
FitsUsize_unchecked(bits) == TRUE

FitsUsize(bits) == \A i \in (UsizeBytes + 1)..U128Bytes : bits[i] = 0

\* fn eval_array_len
eval_array_len(c) ==
    Let(evaluated_of(c), LAMBDA evaluated :
    IF ~evaluated.ok THEN [ok |-> FALSE]
    ELSE IF evaluated.c.val.v = "Scalar" /\ evaluated.c.val.a.s = "Bits"
    THEN IF FitsUsize(evaluated.c.val.a.bits)
         THEN [ok |-> TRUE, len |-> u128_as_len(evaluated.c.val.a.bits)]
         ELSE [ok |-> FALSE]
    ELSE [ok |-> FALSE])

\* the body of read_static_memory were the slice to run to the end of the
\* allocation
read_alloc_to_end(alloc, start, end) ==
    IF alloc.relocations # {} THEN [ok |-> FALSE]
    ELSE IF end > Len(alloc.bytes) THEN [ok |-> FALSE]
    ELSE [ok |-> TRUE, mem |-> SubSeq(alloc.bytes, start + 1, Len(alloc.bytes))]

\* the body of read_static_memory, given the allocation and the range
read_alloc(alloc, start, end) ==
    IF alloc.relocations # {} THEN [ok |-> FALSE]
    ELSE IF end > Len(alloc.bytes) THEN [ok |-> FALSE]
    ELSE [ok |-> TRUE, mem |-> SubSeq(alloc.bytes, start + 1, end)]

\* fn read_static_memory
read_static_memory(ptr, len) ==
    read_alloc(AllocMap[ptr.alloc_id], ptr.offset, ptr.offset + len)

(***************************************************************************)
(* fn render_constant                                                      *)
(***************************************************************************)
\* the low n bytes of a u128: `bits as u32`, `bits as u64`
LowBytes(bits, n) == [i \in 1..n |-> bits[i]]

\* f32::from_bits(b).to_string(), for the bit patterns the model encodes
f32_to_string(b) ==
    CASE b = <<0, 0, 0, 0>> -> "0"
      [] b = <<0, 0, 128, 63>> -> "1"
      [] b = <<0, 0, 128, 191>> -> "-1"
      [] b = <<0, 0, 192, 127>> -> "NaN"

\* f64::from_bits(b).to_string(), for the bit patterns the model encodes
f64_to_string(b) ==
    CASE b = <<0, 0, 0, 0, 0, 0, 0, 0>> -> "0"
      [] b = <<0, 0, 0, 0, 0, 0, 240, 63>> -> "1"
      [] b = <<0, 0, 0, 0, 0, 0, 240, 127>> -> "inf"

\* the Int arm without the sign extension
sign_extend_never(size, bits) == bits

\* the sign extension of the Int arm
sign_extend(size, bits) ==
    IF ~IsZero128(And128(bits, Shl128(U128(1), size * 8 - 1))) /\ size < 128 \div 8
    THEN Or128(bits, Shl128(AllOnes128, size * 8))
    ELSE bits

\* the Int arm: sign-extend to 128 bits, then i128::to_string
render_int(size, bits) == i128_to_string(sign_extend(size, bits))

\* the Bool | Char | Uint arm
render_uint(size, bits) == u128_to_string(bits)

Rendered(key, val) == [ok |-> TRUE, r |-> Some([key |-> key, val |-> val])]

NotRendered == [ok |-> TRUE, r |-> NoneOpt]

RenderPanic == [ok |-> FALSE]

IsRefStr(ty) ==
    ty.sty = "Ref" /\ ty.mutbl = "MutImmutable" /\ ty.ty.sty = "Str"

IsRefU8Array(ty) ==
    /\ ty.sty = "Ref" /\ ty.mutbl = "MutImmutable"
    /\ ty.ty.sty = "Array"
    /\ ty.ty.ty.sty = "Uint" /\ ty.ty.ty.uint = "U8"

\* a literal of the bytes read, or the panic of the read
rendered_mem(key, mem) == IF mem.ok THEN Rendered(key, mem.mem) ELSE RenderPanic

\* the two arms of integer shape: the decimal string of the scalar
int_val(ty, size, bits) ==
    IF ty.sty = "Int" THEN render_int(size, bits) ELSE render_uint(size, bits)

\* scalar: Option<(u8, u128)>, ptr: Option<Pointer>
render_constant(ty, scalar, ptr) ==
    CASE ty.sty \in {"Int", "Bool", "Char", "Uint"} ->
            IF ~scalar.some THEN RenderPanic
            ELSE Rendered("int_val", int_val(ty, scalar.x.size, scalar.x.bits))
      [] ty.sty = "Float" /\ ty.float = "F32" ->
            IF ~scalar.some THEN RenderPanic
            ELSE Rendered("float_val", f32_to_string(LowBytes(scalar.x.bits, 4)))
      [] ty.sty = "Float" /\ ty.float = "F64" ->
            IF ~scalar.some THEN RenderPanic
            ELSE Rendered("float_val", f64_to_string(LowBytes(scalar.x.bits, 8)))
      [] IsRefStr(ty) ->
            IF ~ptr.some \/ ~scalar.some THEN RenderPanic
            ELSE IF ~FitsUsize(scalar.x.bits) THEN RenderPanic
            ELSE rendered_mem("str_val",
                    read_static_memory(ptr.x, u128_as_len(scalar.x.bits)))
      [] IsRefU8Array(ty) ->
            Let(eval_array_len(ty.ty.size), LAMBDA len :
            IF ~len.ok \/ ~ptr.some THEN RenderPanic
            ELSE rendered_mem("bstr_val", read_static_memory(ptr.x, len.len)))
      [] OTHER -> NotRendered

(***************************************************************************)
(* The Type Encoder, impl ToJson for ty::Ty, with the encoders it calls.   *)
(***************************************************************************)
RECURSIVE ty_to_json(_, _)
RECURSIVE tys_to_json(_, _)
RECURSIVE substs_to_json(_, _)
RECURSIVE kind_to_json(_, _)
RECURSIVE fnsig_to_json(_, _)
RECURSIVE const_to_json(_, _)
RECURSIVE adt_ref_to_json(_, _)

\* a panic in r unwinds through the caller; otherwise the caller goes on with
\* r's JSON value and the side-table r left
Bind(r, K(_)) == IF r.ok THEN K(r) ELSE r

\* impl ToJson for ty::List<T>, T = Ty
tys_to_json(l, ms) ==
    IF l = <<>> THEN Ok(<<>>, ms)
    ELSE Bind(ty_to_json(Head(l), ms), LAMBDA h :
         Bind(tys_to_json(Tail(l), h.ms), LAMBDA t :
         Ok(<<h.j>> \o t.j, t.ms)))

\* impl ToJson for ty::List<T>, T = subst::Kind
substs_to_json(l, ms) ==
    IF l = <<>> THEN Ok(<<>>, ms)
    ELSE Bind(kind_to_json(Head(l), ms), LAMBDA h :
         Bind(substs_to_json(Tail(l), h.ms), LAMBDA t :
         Ok(<<h.j>> \o t.j, t.ms)))

\* impl ToJson for ty::subst::Kind
kind_to_json(k, ms) ==
    IF k.k = "Type" THEN ty_to_json(k.ty, ms)
    ELSE Ok([kind |-> "Lifetime"], ms)

\* impl ToJson for ty::FnSig (and PolyFnSig, which skips the binder)
fnsig_to_json(sig, ms) ==
    Bind(tys_to_json(sig.inputs, ms), LAMBDA i :
    Bind(ty_to_json(sig.output, i.ms), LAMBDA o :
    Ok([inputs |-> i.j, output |-> o.j], o.ms)))

\* the match on the evaluated value in Const::to_json: the scalar and the
\* pointer handed to render_constant
scalar_of(val) ==
    CASE val.v = "Scalar" /\ val.a.s = "Bits" ->
            Some([size |-> val.a.size, bits |-> val.a.bits])
      [] val.v = "ScalarPair" /\ val.a.s = "Ptr" /\ val.b.s = "Bits" ->
            Some([size |-> val.b.size, bits |-> val.b.bits])
      [] OTHER -> NoneOpt

ptr_of(val) ==
    CASE val.v = "Scalar" /\ val.a.s = "Ptr" -> Some(val.a)
      [] val.v = "ScalarPair" /\ val.a.s = "Ptr" /\ val.b.s = "Bits" -> Some(val.a)
      [] OTHER -> NoneOpt

rendered_of(ty, val) ==
    IF \/ val.v = "Scalar" /\ val.a.s \in {"Bits", "Ptr"}
       \/ val.v = "ScalarPair" /\ val.a.s = "Ptr" /\ val.b.s = "Bits"
    THEN render_constant(ty, scalar_of(val), ptr_of(val))
    ELSE NotRendered

\* the end of Const::to_json: the literal, if any, joins the map
with_rendered(map, rendered, ms) ==
    IF ~rendered.ok THEN Panicked(ms)
    ELSE IF rendered.r.some
    THEN Ok(map @@ (rendered.r.x.key :> rendered.r.x.val), ms)
    ELSE Ok(map, ms)

\* the end of Const::to_json were a failed evaluation to leave out the literal
with_evaluated_degrading(ty, map, evaluated, ms) ==
    IF ~evaluated.ok THEN Ok(map, ms)
    ELSE with_rendered(map, rendered_of(ty, evaluated.c.val), ms)

with_evaluated(ty, map, evaluated, ms) ==
    IF ~evaluated.ok THEN Panicked(ms)
    ELSE with_rendered(map, rendered_of(ty, evaluated.c.val), ms)

\* impl ToJson for ty::Const
\* the "initializer" field of an Unevaluated constant, nothing otherwise
initializer_json(c, ms) ==
    IF c.val.v = "Unevaluated"
    THEN Bind(substs_to_json(c.val.substs, ms), LAMBDA s :
         Ok([initializer |-> [def_id |-> defid_to_json(c.val.def_id), substs |-> s.j]],
            s.ms))
    ELSE Ok(<<>>, ms)

\* impl ToJson for ty::Const
const_to_json(c, ms) ==
    Bind(ty_to_json(c.ty, ms), LAMBDA tyj :
    Bind(initializer_json(c, tyj.ms), LAMBDA init :
    with_evaluated(c.ty, [kind |-> "Const", ty |-> tyj.j] @@ init.j,
                   evaluated_of(c), init.ms)))

\* the Adt arm without the insert into used_types
adt_ref_unrecorded(t, ms) ==
    Bind(substs_to_json(t.substs, ms), LAMBDA s :
    Ok([kind |-> "Adt", name |-> defid_str(t.did), substs |-> s.j], s.ms))

\* the Adt arm emitting the substitution only of an ADT not yet recorded
adt_ref_abbreviated(t, ms) ==
    IF t.did \in ms
    THEN Ok([kind |-> "Adt", name |-> defid_str(t.did), substs |-> <<>>], ms)
    ELSE Bind(substs_to_json(t.substs, ms \cup {t.did}), LAMBDA s :
         Ok([kind |-> "Adt", name |-> defid_str(t.did), substs |-> s.j], s.ms))

\* the TyKind::Adt arm: record the ADT as used, emit a reference
adt_ref_to_json(t, ms) ==
    Bind(substs_to_json(t.substs, ms \cup {t.did}), LAMBDA s :
    Ok([kind |-> "Adt", name |-> defid_str(t.did), substs |-> s.j], s.ms))

ty_to_json(t, ms) ==
    CASE t.sty = "Bool" -> Ok([kind |-> "Bool"], ms)
      [] t.sty = "Char" -> Ok([kind |-> "Char"], ms)
      [] t.sty = "Int" -> Ok([kind |-> "Int", intkind |-> basic_json_enum(t.int)], ms)
      [] t.sty = "Uint" -> Ok([kind |-> "Uint", uintkind |-> basic_json_enum(t.uint)], ms)
      [] t.sty = "Tuple" ->
            Bind(tys_to_json(t.tys, ms), LAMBDA s :
            Ok([kind |-> "Tuple", tys |-> s.j], s.ms))
      [] t.sty = "Slice" ->
            Bind(ty_to_json(t.ty, ms), LAMBDA f :
            Ok([kind |-> "Slice", ty |-> f.j], f.ms))
      [] t.sty = "Str" -> Ok([kind |-> "Str"], ms)
      [] t.sty = "Float" -> Ok([kind |-> "Float", size |-> basic_json_enum(t.float)], ms)
      [] t.sty = "Array" ->
            Bind(ty_to_json(t.ty, ms), LAMBDA e :
            Bind(const_to_json(t.size, e.ms), LAMBDA size :
            Ok([kind |-> "Array", ty |-> e.j, size |-> size.j], size.ms)))
      [] t.sty = "Ref" ->
            Bind(ty_to_json(t.ty, ms), LAMBDA r :
            Ok([kind |-> "Ref", ty |-> r.j, mutability |-> basic_json_enum(t.mutbl)],
               r.ms))
      [] t.sty = "RawPtr" ->
            Bind(ty_to_json(t.ty, ms), LAMBDA r :
            Ok([kind |-> "RawPtr", ty |-> r.j, mutability |-> basic_json_enum(t.mutbl)],
               r.ms))
      [] t.sty = "Adt" -> adt_ref_to_json(t, ms)
      [] t.sty = "FnDef" ->
            Bind(substs_to_json(t.substs, ms), LAMBDA s :
            Ok([kind |-> "FnDef", defid |-> defid_to_json(t.did), substs |-> s.j], s.ms))
      [] t.sty = "Param" -> Ok([kind |-> "Param", param |-> t.idx], ms)
      [] t.sty = "Closure" ->
            Bind(substs_to_json(t.substs, ms), LAMBDA s :
            Ok([kind |-> "Closure", defid |-> defid_to_json(t.did),
                closuresubsts |-> s.j], s.ms))
      [] t.sty = "Dynamic" ->
            Ok([kind |-> "Dynamic", data |-> defid_to_json(t.principal)], ms)
      [] t.sty = "Projection" ->
            Bind(substs_to_json(t.substs, ms), LAMBDA s :
            Ok([kind |-> "Projection", substs |-> s.j, defid |-> defid_to_json(t.did)],
               s.ms))
      [] t.sty = "UnnormalizedProjection" ->
            Bind(substs_to_json(t.substs, ms), LAMBDA s :
            Ok([kind |-> "UnnormalizedProjection", substs |-> s.j,
                defid |-> defid_to_json(t.did)], s.ms))
      [] t.sty = "FnPtr" ->
            Bind(fnsig_to_json(t.sig, ms), LAMBDA s :
            Ok([kind |-> "FnPtr", signature |-> s.j], s.ms))
      [] t.sty = "Never" -> Ok([kind |-> "Never"], ms)
      [] t.sty = "Error" -> Ok([kind |-> "Error"], ms)
      [] t.sty = "Infer" -> Ok([kind |-> "Infer"], ms)
      [] t.sty = "Foreign" -> Ok([kind |-> "Foreign"], ms)
      [] t.sty = "Generator" -> Ok([kind |-> "Generator"], ms)
      [] t.sty = "GeneratorWitness" -> Ok([kind |-> "GeneratorWitness"], ms)
      [] t.sty = "Opaque" -> Ok([kind |-> "Opaque"], ms)

(***************************************************************************)
(* tcx.generics_of and tcx.predicates_of: the generics and the predicates  *)
(* of the crate's definitions, each with its parent link.                  *)
(***************************************************************************)
ParamDef(name, def_id) == [name |-> name, def_id |-> def_id]

Generics(parent, params) == [parent |-> parent, params |-> params]

PTrait(def_id, substs) == [p |-> "Trait", def_id |-> def_id, substs |-> substs]

PProjection(item_def_id, substs, ty) ==
    [p |-> "Projection", item_def_id |-> item_def_id, substs |-> substs, ty |-> ty]

\* a predicate kind the encoder does not model (RegionOutlives, WellFormed, ...)
POther == [p |-> "Other"]

Predicates(parent, predicates) == [parent |-> parent, predicates |-> predicates]

UnitTy == TAdt("Unit", <<>>)

generics_of(d) ==
    CASE d = "Tr" -> Generics(None, <<ParamDef("Self", "Tr"), ParamDef("A", "Tr_A")>>)
      [] d = "Tr_f" -> Generics("Tr", <<ParamDef("B", "Tr_f_B")>>)
      [] d = "Tr_f_closure" -> Generics("Tr_f", <<>>)
      [] d = "Tr_Out" -> Generics("Tr", <<>>)
      [] d = "Tr_N" -> Generics("Tr", <<>>)
      [] d = "Pair" -> Generics(None, <<ParamDef("A", "Pair_A"), ParamDef("B", "Pair_B")>>)
      [] d = "Opt" -> Generics(None, <<ParamDef("T", "Opt_T")>>)
      [] d = "ImplPair" ->
            Generics(None, <<ParamDef("A", "ImplPair_A"), ParamDef("B", "ImplPair_B")>>)
      [] d = "ImplPair_new" -> Generics("ImplPair", <<>>)
      [] d = "ImplPair_W" -> Generics("ImplPair", <<>>)
      [] d = "Dup_g_ty" -> Generics("Dup", <<>>)
      [] d = "Dup_g_fn" -> Generics("Dup", <<>>)
      [] d = "Dup" -> Generics(None, <<ParamDef("Self", "Dup")>>)
      [] d \in {"ImplTr_f", "ImplTr_Out", "ImplTr_N"} -> Generics("ImplTr", <<>>)
      [] d = "ImplDup_g" -> Generics("ImplDup", <<>>)
      [] OTHER -> Generics(None, <<>>)

predicates_of(d) ==
    CASE d = "Tr" -> Predicates(None, <<PTrait("Tr", <<KType(TParam(0)), KType(TParam(1))>>)>>)
      [] d = "Tr_f" ->
            Predicates("Tr", <<PTrait("Dup", <<KType(TParam(2))>>), POther>>)
      [] d = "Tr_f_closure" -> Predicates("Tr_f", <<>>)
      [] d = "Tr_Out" -> Predicates("Tr", <<>>)
      [] d = "Tr_N" -> Predicates("Tr", <<>>)
      [] d = "Dup" -> Predicates(None, <<PTrait("Dup", <<KType(TParam(0))>>)>>)
      [] d = "Dup_g_ty" -> Predicates("Dup", <<>>)
      [] d = "Dup_g_fn" -> Predicates("Dup", <<>>)
      [] d = "ImplPair" ->
            Predicates(None,
                <<PProjection("Tr_Out", <<KType(TParam(0)), KType(TParam(1))>>, UnitTy)>>)
      [] d = "ImplPair_new" -> Predicates("ImplPair", <<POther>>)
      [] d = "ImplPair_W" -> Predicates("ImplPair", <<>>)
      [] d \in {"ImplTr_f", "ImplTr_Out", "ImplTr_N"} -> Predicates("ImplTr", <<>>)
      [] d = "ImplDup_g" -> Predicates("ImplDup", <<>>)
      [] OTHER -> Predicates(None, <<>>)

(***************************************************************************)
(* The Generics & Predicate Encoder.                                       *)
(***************************************************************************)
\* impl ToJson for ty::GenericParamDef
param_def_to_json(p) == [param_def |-> p.name, def_id |-> defid_to_json(p.def_id)]

\* generics.params.iter().map(|p| p.to_json(ms))
params_to_json(params) == [i \in 1..Len(params) |-> param_def_to_json(params[i])]

\* gather_params with the two statements exchanged: own entries, then the parent's
RECURSIVE gather_params_self_first(_, _)
gather_params_self_first(generics, dest) ==
    IF generics.parent # None
    THEN gather_params_self_first(generics_of(generics.parent),
                                  dest \o params_to_json(generics.params))
    ELSE dest \o params_to_json(generics.params)

\* fn gather_params: dest after the call, given dest before it
RECURSIVE gather_params(_, _)
gather_params(generics, dest) ==
    (IF generics.parent # None
     THEN gather_params(generics_of(generics.parent), dest)
     ELSE dest)
    \o params_to_json(generics.params)

\* impl ToJson for ty::Generics
generics_to_json(generics, ms) ==
    Ok([params |-> gather_params(generics, <<>>)], ms)

\* a JSON string where a list holds strings beside objects
JsonString(str) == [json_string |-> str]

\* impl ToJson for ty::TraitRef
trait_ref_to_json(def_id, substs, ms) ==
    Bind(substs_to_json(substs, ms), LAMBDA s :
    Ok([trait |-> defid_to_json(def_id), substs |-> s.j], s.ms))

\* impl ToJson for ty::ProjectionPredicate and ty::ProjectionTy
projection_pred_to_json(p, ms) ==
    Bind(substs_to_json(p.substs, ms), LAMBDA s :
    Bind(ty_to_json(p.ty, s.ms), LAMBDA t :
    Ok([projection_ty |-> [substs |-> s.j, item_def_id |-> defid_to_json(p.item_def_id)],
        ty |-> t.j], t.ms)))

\* impl ToJson for ty::Predicate
predicate_to_json(p, ms) ==
    CASE p.p = "Trait" ->
            Bind(trait_ref_to_json(p.def_id, p.substs, ms), LAMBDA r :
            Ok([trait_pred |-> r.j], r.ms))
      [] p.p = "Projection" ->
            Bind(projection_pred_to_json(p, ms), LAMBDA r :
            Ok([trait_proj |-> r.j], r.ms))
      [] OTHER -> Ok(JsonString("unknown_pred"), ms)

\* preds.predicates.iter().map(|p| p.0.to_json(ms))
RECURSIVE preds_to_json(_, _)
preds_to_json(l, ms) ==
    IF l = <<>> THEN Ok(<<>>, ms)
    ELSE Bind(predicate_to_json(Head(l), ms), LAMBDA h :
         Bind(preds_to_json(Tail(l), h.ms), LAMBDA t :
         Ok(<<h.j>> \o t.j, t.ms)))

\* fn gather_preds: dest (in j) after the call, given dest before it
RECURSIVE gather_preds(_, _, _)
gather_preds(preds, dest, ms) ==
    Bind(preds_to_json(preds.predicates, ms), LAMBDA own :
    IF preds.parent # None
    THEN gather_preds(predicates_of(preds.parent), dest \o own.j, own.ms)
    ELSE Ok(dest \o own.j, own.ms))

\* impl ToJson for ty::GenericPredicates
predicates_to_json(preds, ms) ==
    Bind(gather_preds(preds, <<>>, ms), LAMBDA g :
    Ok([predicates |-> g.j], g.ms))

(***************************************************************************)
(* tcx.type_of, tcx.fn_sig, tcx.impl_trait_ref, tcx.associated_items and   *)
(* the ADT definitions of the crate.                                       *)
(***************************************************************************)
U8 == TUint("U8")

type_of(d) ==
    CASE d = "Pair_a" -> TParam(0)
      [] d = "Pair_b" -> TRef(TParam(1), "MutImmutable")
      [] d = "Opt_Some_0" -> TParam(0)
      [] d = "Buf_data" -> TArray(U8, Const(TUint("Usize"), VUnevaluated("BAD", <<>>)))
      [] d = "Buf_next" -> TRef(TAdt("Buf", <<>>), "MutImmutable")
      [] d = "Tr_N" -> TUint("Usize")
      [] d = "ImplTr_N" -> TUint("Usize")
      [] d = "ImplTr_Out" -> TAdt("Opt", <<KType(U8)>>)
      [] d = "Tr_Out" -> TParam(1)
      [] d = "Dup_g_ty" -> UnitTy
      [] d = "ImplPair_W" ->
            TArray(U8, Const(TUint("Usize"), VUnevaluated("GEN", <<KType(U8)>>)))
      [] OTHER -> TOther("Error")

fn_sig(d) ==
    CASE d = "Tr_f" -> FnSig(<<TParam(0), TParam(2)>>, TParam(1))
      [] d = "ImplTr_f" -> FnSig(<<UnitTy, TBool>>, U8)
      [] d = "ImplPair_new" ->
            FnSig(<<TParam(0), TParam(1)>>,
                  TAdt("Pair", <<KType(TParam(0)), KType(TParam(1))>>))
      [] OTHER -> FnSig(<<>>, TTuple(<<>>))

impl_trait_ref(impl_did) ==
    CASE impl_did = "ImplTr" -> Some([def_id |-> "Tr", substs |-> <<KType(UnitTy), KType(U8)>>])
      [] impl_did = "ImplDup" -> Some([def_id |-> "Dup", substs |-> <<KType(UnitTy)>>])
      [] OTHER -> NoneOpt

TraitContainer(d) == [c |-> "TraitContainer", did |-> d]

ImplContainer(d) == [c |-> "ImplContainer", did |-> d]

DefaultNoValue == [d |-> "Default", has_value |-> FALSE]

DefaultValue == [d |-> "Default", has_value |-> TRUE]

Final == [d |-> "Final"]

AssociatedItem(def_id, name, kind, defaultness, container) ==
    [def_id |-> def_id, name |-> name, kind |-> kind,
     defaultness |-> defaultness, container |-> container]

associated_items(d) ==
    CASE d = "Tr" ->
            <<AssociatedItem("Tr_f", "f", "Method", DefaultNoValue, TraitContainer("Tr")),
              AssociatedItem("Tr_Out", "Out", "Type", DefaultNoValue, TraitContainer("Tr")),
              AssociatedItem("Tr_N", "N", "Const", DefaultValue, TraitContainer("Tr"))>>
      [] d = "Dup" ->
            \* a type and a method of one name: two namespaces
            <<AssociatedItem("Dup_g_ty", "g", "Type", DefaultValue, TraitContainer("Dup")),
              AssociatedItem("Dup_g_fn", "g", "Method", DefaultNoValue, TraitContainer("Dup"))>>
      [] d = "ImplTr" ->
            <<AssociatedItem("ImplTr_f", "f", "Method", Final, ImplContainer("ImplTr")),
              AssociatedItem("ImplTr_Out", "Out", "Type", Final, ImplContainer("ImplTr")),
              AssociatedItem("ImplTr_N", "N", "Const", Final, ImplContainer("ImplTr"))>>
      [] d = "ImplDup" ->
            <<AssociatedItem("ImplDup_g", "g", "Method", Final, ImplContainer("ImplDup"))>>
      [] d = "ImplPair" ->
            <<AssociatedItem("ImplPair_new", "new", "Method", Final, ImplContainer("ImplPair")),
              AssociatedItem("ImplPair_W", "W", "Const", Final, ImplContainer("ImplPair"))>>
      [] OTHER -> <<>>

Relative(i) == [d |-> "Relative", index |-> i]

Explicit(n) == [d |-> "Explicit", name |-> n]

VariantDef(did, discr, fields, ctor_kind) ==
    [did |-> did, discr |-> discr, fields |-> fields, ctor_kind |-> ctor_kind]

\* a FieldDef is known by its DefId
adt_def(d) ==
    CASE d = "Unit" -> [did |-> d, variants |->
            <<VariantDef("Unit", Relative(0), <<>>, "Const")>>]
      [] d = "Pair" -> [did |-> d, variants |->
            <<VariantDef("Pair", Relative(0), <<"Pair_a", "Pair_b">>, "Fictive")>>]
      [] d = "Opt" -> [did |-> d, variants |->
            <<VariantDef("Opt_None", Relative(0), <<>>, "Const"),
              VariantDef("Opt_Some", Relative(1), <<"Opt_Some_0">>, "Fn")>>]
      [] d = "Buf" -> [did |-> d, variants |->
            <<VariantDef("Buf", Relative(0), <<"Buf_next", "Buf_data">>, "Fictive")>>]
      [] d = "Ord" -> [did |-> d, variants |->
            <<VariantDef("Ord_Lt", Explicit("Ord_Lt_discr"), <<>>, "Const"),
              VariantDef("Ord_Eq", Relative(1), <<>>, "Const")>>]

(***************************************************************************)
(* The Associated Item Encoder, fn assoc_item_json.                        *)
(***************************************************************************)
\* the kind arm were an associated type to carry its type whatever its
\* defaultness
assoc_kind_json_always_typed(item, ms) ==
    CASE item.kind \in {"Const", "Type"} ->
            Bind(ty_to_json(type_of(item.def_id), ms), LAMBDA t :
            Ok([kind |-> item.kind, type |-> t.j], t.ms))
      [] item.kind = "Method" ->
            Bind(fnsig_to_json(fn_sig(item.def_id), ms), LAMBDA g :
            Ok([kind |-> "Method", signature |-> g.j], g.ms))
      [] item.kind = "Existential" -> Ok([kind |-> "Existential"], ms)

\* the kind arm: the fields it adds to the map
assoc_kind_json(item, ms) ==
    CASE item.kind = "Const" ->
            Bind(ty_to_json(type_of(item.def_id), ms), LAMBDA t :
            Ok([kind |-> "Const", type |-> t.j], t.ms))
      [] item.kind = "Method" ->
            Bind(fnsig_to_json(fn_sig(item.def_id), ms), LAMBDA g :
            Ok([kind |-> "Method", signature |-> g.j], g.ms))
      [] item.kind = "Type" ->
            IF item.defaultness.d = "Default" /\ ~item.defaultness.has_value
            THEN Ok([kind |-> "Type"], ms)
            ELSE Bind(ty_to_json(type_of(item.def_id), ms), LAMBDA t :
                 Ok([kind |-> "Type", type |-> t.j], t.ms))
      [] item.kind = "Existential" -> Ok([kind |-> "Existential"], ms)

\* the loop leaving at the first item of the name
RECURSIVE implements_loop_first(_, _, _)
implements_loop_first(trait_items, item, map) ==
    IF trait_items = <<>> THEN map
    ELSE IF Head(trait_items).name = item.name
    THEN ("implements" :> defid_to_json(Head(trait_items).def_id)) @@ map
    ELSE implements_loop_first(Tail(trait_items), item, map)

\* the loop over the trait's items: the map after it
RECURSIVE implements_loop(_, _, _)
implements_loop(trait_items, item, map) ==
    IF trait_items = <<>> THEN map
    ELSE implements_loop(Tail(trait_items), item,
            IF Head(trait_items).name = item.name
            THEN ("implements" :> defid_to_json(Head(trait_items).def_id)) @@ map
            ELSE map)

\* the loop, if the impl has a trait reference
implements_of(trait_ref, item, map) ==
    IF trait_ref.some
    THEN implements_loop(associated_items(trait_ref.x.def_id), item, map)
    ELSE map

\* the `if let ImplContainer` block
implements_json(item, map) ==
    IF item.container.c = "ImplContainer"
    THEN implements_of(impl_trait_ref(item.container.did), item, map)
    ELSE map

assoc_item_json(item, ms) ==
    Bind(generics_to_json(generics_of(item.def_id), ms), LAMBDA g :
    Bind(predicates_to_json(predicates_of(item.def_id), g.ms), LAMBDA p :
    Bind(assoc_kind_json(item, p.ms), LAMBDA k :
    Ok(implements_json(item,
            [name |-> defid_to_json(item.def_id), generics |-> g.j, predicates |-> p.j]
            @@ k.j),
       k.ms))))

(***************************************************************************)
(* The Aggregate Definition Encoder, impl ToJsonAg for AdtDef, VariantDef  *)
(* and FieldDef.                                                           *)
(***************************************************************************)
\* fn defid_ty
defid_ty(d, ms) == ty_to_json(type_of(d), ms)

\* impl ToJson for ty::VariantDiscr
discr_to_json(discr) ==
    IF discr.d = "Relative" THEN [kind |-> "Relative", index |-> discr.index]
    ELSE [kind |-> "Explicit", name |-> defid_to_json(discr.name)]

RECURSIVE SubstTy(_, _)
RECURSIVE SubstTys(_, _)
RECURSIVE SubstKinds(_, _)

SubstTys(l, substs) == [i \in DOMAIN l |-> SubstTy(l[i], substs)]

SubstKinds(l, substs) ==
    [i \in DOMAIN l |->
        IF l[i].k = "Type" THEN KType(SubstTy(l[i].ty, substs)) ELSE l[i]]

\* the type t with the substitution applied: every generic parameter
\* replaced by the argument at its index
SubstTy(t, substs) ==
    CASE t.sty = "Param" ->
            IF t.idx < Len(substs) /\ substs[t.idx + 1].k = "Type"
            THEN substs[t.idx + 1].ty ELSE t
      [] t.sty = "Tuple" -> TTuple(SubstTys(t.tys, substs))
      [] t.sty = "Slice" -> TSlice(SubstTy(t.ty, substs))
      [] t.sty = "Array" -> TArray(SubstTy(t.ty, substs), t.size)
      [] t.sty = "Ref" -> TRef(SubstTy(t.ty, substs), t.mutbl)
      [] t.sty = "RawPtr" -> TRawPtr(SubstTy(t.ty, substs), t.mutbl)
      [] t.sty = "Adt" -> TAdt(t.did, SubstKinds(t.substs, substs))
      [] OTHER -> t

\* a field record with the substitution applied to the declared type
field_tojson_substituted(field, ms, substs) ==
    Bind(ty_to_json(SubstTy(type_of(field), substs), ms), LAMBDA t :
    Bind(substs_to_json(substs, t.ms), LAMBDA s :
    Ok([name |-> defid_str(field), ty |-> t.j, substs |-> s.j], s.ms)))

\* impl ToJsonAg for ty::FieldDef
field_tojson(field, ms, substs) ==
    Bind(defid_ty(field, ms), LAMBDA t :
    Bind(substs_to_json(substs, t.ms), LAMBDA s :
    Ok([name |-> defid_str(field), ty |-> t.j, substs |-> s.j], s.ms)))

\* impl ToJsonAg for Vec<T>, T = FieldDef
RECURSIVE fields_tojson(_, _, _)
fields_tojson(l, ms, substs) ==
    IF l = <<>> THEN Ok(<<>>, ms)
    ELSE Bind(field_tojson(Head(l), ms, substs), LAMBDA h :
         Bind(fields_tojson(Tail(l), h.ms, substs), LAMBDA t :
         Ok(<<h.j>> \o t.j, t.ms)))

\* impl ToJsonAg for ty::VariantDef
variant_tojson(variant, ms, substs) ==
    Bind(fields_tojson(variant.fields, ms, substs), LAMBDA f :
    Ok([name |-> defid_str(variant.did),
        discr |-> discr_to_json(variant.discr),
        fields |-> f.j,
        ctor_kind |-> basic_json_enum(variant.ctor_kind)], f.ms))

\* impl ToJsonAg for Vec<T>, T = VariantDef
RECURSIVE variants_tojson(_, _, _)
variants_tojson(l, ms, substs) ==
    IF l = <<>> THEN Ok(<<>>, ms)
    ELSE Bind(variant_tojson(Head(l), ms, substs), LAMBDA h :
         Bind(variants_tojson(Tail(l), h.ms, substs), LAMBDA t :
         Ok(<<h.j>> \o t.j, t.ms)))

\* impl ToJsonAg for ty::AdtDef
adt_tojson(adt, ms, substs) ==
    Bind(variants_tojson(adt.variants, ms, substs), LAMBDA v :
    Ok([name |-> defid_str(adt.did), variants |-> v.j], v.ms))

(***************************************************************************)
(* The inputs the encoders are called with.                                *)
(***************************************************************************)
\* the sequences over S of length at most n
SeqsUpTo(S, n) == UNION {[1..k -> S] : k \in 0..n}

Mutabilities == {"MutImmutable", "MutMutable"}

\* the kinds the encoder has no model of
UnmodeledTys ==
    {TOther("Infer"), TOther("Foreign"), TOther("Generator"),
     TOther("GeneratorWitness"), TOther("Opaque")}

LeafTys ==
    {TBool, TChar, TStr, TNever, TOther("Error"), TInt("I32"), U8, TFloat("F32"),
     TParam(0), TParam(1), UnitTy, TDynamic("Tr")} \cup UnmodeledTys

\* the types that stand as arguments of the compound types
ArgTys == {TBool, TParam(0), UnitTy}

\* the length constants of the array types: evaluated, unevaluated and
\* forced with success, unevaluated and not forceable
ArrayLens ==
    {Usize(3),
     Const(TUint("Usize"), VUnevaluated("LEN", <<>>)),
     Const(TUint("Usize"), VUnevaluated("GEN", <<KType(TAdt("Opt", <<KType(U8)>>))>>)),
     Const(TUint("Usize"), VUnevaluated("BAD", <<>>)),
     Const(TUint("Usize"), VUnevaluated("GEN", <<KType(TParam(0))>>)),
     Const(TUint("Usize"), VUnevaluated("Tr_N", <<KType(TParam(0))>>))}

SubstsOf(S) == {<<KType(a)>> : a \in S} \cup {<<KLifetime, KType(a)>> : a \in S}

CompoundTys ==
    {TTuple(tys) : tys \in SeqsUpTo({TBool, UnitTy}, MaxOwn)}
    \cup {TSlice(a) : a \in ArgTys}
    \cup {TRef(a, m) : a \in ArgTys, m \in Mutabilities}
    \cup {TRawPtr(a, m) : a \in ArgTys, m \in Mutabilities}
    \cup {TArray(TBool, n) : n \in ArrayLens}
    \cup {TAdt("Opt", s) : s \in SubstsOf(ArgTys)}
    \cup {TAdt("Pair", <<KType(a), KType(TBool)>>) : a \in {TBool, UnitTy}}
    \cup {TFnDef("foo", s) : s \in SubstsOf({UnitTy})}
    \cup {TClosure("Tr_f_closure", s) : s \in SubstsOf({TBool})}
    \cup {TProjection("Tr_Out", s) : s \in SubstsOf({TParam(0)})}
    \cup {TUnnormalizedProjection("Tr_Out", <<KType(UnitTy)>>)}
    \cup {TFnPtr(FnSig(i, TBool)) : i \in SeqsUpTo({TBool, UnitTy}, 1)}

\* the types wrapped to a depth
Wrap(S) ==
    {TRef(t, "MutImmutable") : t \in S}
    \cup {TAdt("Opt", <<KType(t)>>) : t \in S}

RECURSIVE Nest(_)
Nest(n) ==
    IF n = 0
    THEN {TAdt("Pair", <<KType(TBool), KType(UnitTy)>>),
          TArray(UnitTy, Const(TUint("Usize"), VUnevaluated("BAD", <<>>))),
          TOther("Generator")}
    ELSE Nest(n - 1) \cup Wrap(Nest(n - 1))

Tys == LeafTys \cup CompoundTys \cup Nest(MaxDepth)

ParamPool == {ParamDef("P", "P"), ParamDef("Q", "Q")}

GenericOwners == {"Tr", "Tr_f", "Tr_f_closure", "ImplPair", "ImplPair_new", "Opt"}

\* the parents of the generated inputs: none, and chains of two and three
InputParents == {None, "Tr_f", "Tr_f_closure"}

GenericsInputs ==
    {Generics(parent, params) :
        parent \in InputParents, params \in SeqsUpTo(ParamPool, MaxOwn)}
    \cup {generics_of(d) : d \in GenericOwners}

PredPool ==
    {PTrait("Dup", <<KType(TParam(0))>>),
     PProjection("Tr_Out", <<KType(TParam(0))>>, TAdt("Opt", <<KType(U8)>>)),
     POther}

PredicatesInputs ==
    {Predicates(parent, preds) :
        parent \in InputParents, preds \in SeqsUpTo(PredPool, MaxOwn)}
    \cup {predicates_of(d) : d \in GenericOwners}

ItemOwners == {"Tr", "Dup", "ImplTr", "ImplDup", "ImplPair"}

Range(f) == {f[i] : i \in DOMAIN f}

\* the associated items of the crate
CrateItems == UNION {Range(associated_items(d)) : d \in ItemOwners}

ItemNames == {"f", "g"}

Containers == {ImplContainer("ImplTr"), ImplContainer("ImplDup"), ImplContainer("ImplPair")}

\* the crate's items, and items that differ from them in name, container
\* and defaultness, as other crates hold them
AssocItems ==
    CrateItems
    \cup {AssociatedItem(i.def_id, n, i.kind, i.defaultness, c) :
            i \in {x \in CrateItems : x.container.c = "ImplContainer" /\ x.kind = "Method"},
            n \in ItemNames, c \in Containers}
    \cup {AssociatedItem(i.def_id, i.name, i.kind, d, i.container) :
            i \in {x \in CrateItems : x.kind = "Type"},
            d \in {DefaultNoValue, DefaultValue, Final}}
    \cup {AssociatedItem("Tr_Out", "Out", "Existential", Final, ImplContainer("ImplTr"))}

AdtInputs ==
    {[adt |-> d, substs |-> s] :
        d \in {"Unit", "Ord", "Buf"}, s \in {<<>>}}
    \cup {[adt |-> "Opt", substs |-> s] : s \in SubstsOf(ArgTys)}
    \cup {[adt |-> "Pair", substs |-> <<KType(a), KType(b)>>] :
            a, b \in {TBool, TParam(0), UnitTy}}

\* the byte width of the integer types (isize and usize of a 64-bit target)
IntSize == [I8 |-> 1, I16 |-> 2, I32 |-> 4, I64 |-> 8, I128 |-> 16, Isize |-> 8]

UintSize == [U8 |-> 1, U16 |-> 2, U32 |-> 4, U64 |-> 8, U128 |-> 16, Usize |-> 8]

\* the u128 of w bytes with this lowest byte, this highest byte and the
\* bytes between them all `fill`
Pattern(w, low, fill, top) ==
    [i \in ByteIdx |->
        IF i > w THEN 0 ELSE IF i = w THEN top ELSE IF i = 1 THEN low ELSE fill]

BitPatterns(w) ==
    {Pattern(w, lf[1], lf[2], top) :
        lf \in {<<1, 0>>, <<255, 255>>}, top \in {0, 127, 128, 255}}

FromBytes(b) == [i \in ByteIdx |-> IF i <= Len(b) THEN b[i] ELSE 0]

\* the scalar constants a checked crate holds: the scalar is as wide as the type
ScalarConsts ==
    UNION {{Const(TInt(k), VScalar(Bits(IntSize[k], b))) : b \in BitPatterns(IntSize[k])}
            : k \in DOMAIN IntSize}
    \cup UNION {{Const(TUint(k), VScalar(Bits(UintSize[k], b))) : b \in BitPatterns(UintSize[k])}
            : k \in DOMAIN UintSize}
    \cup {Const(TBool, VScalar(Bits(1, U128(b)))) : b \in {0, 1}}
    \cup {Const(TChar, VScalar(Bits(4, b))) :
            b \in {U128(65), FromBytes(<<255, 255, 16>>)}}
    \cup {Const(TFloat("F32"), VScalar(Bits(4, FromBytes(b)))) :
            b \in {<<0, 0, 0, 0>>, <<0, 0, 128, 63>>, <<0, 0, 128, 191>>, <<0, 0, 192, 127>>}}
    \cup {Const(TFloat("F64"), VScalar(Bits(8, FromBytes(b)))) :
            b \in {<<0, 0, 0, 0, 0, 0, 0, 0>>, <<0, 0, 0, 0, 0, 0, 240, 63>>,
                   <<0, 0, 0, 0, 0, 0, 240, 127>>}}

RefStr == TRef(TStr, "MutImmutable")

RefU8Array(n) == TRef(TArray(U8, n), "MutImmutable")

\* the string and byte-string literals of the crate: each points into its
\* allocation, within its bounds
InBounds(a, off, len) == off + len <= Len(AllocMap[a].bytes)

StrConsts ==
    {Const(RefStr, VScalarPair(Ptr(r.ptr.alloc_id, r.ptr.offset),
                               Bits(UsizeBytes, U128(r.len)))) :
        r \in {x \in [ptr : {Ptr(a, off) : a \in AllocIds, off \in 0..1}, len : 0..2] :
                    InBounds(x.ptr.alloc_id, x.ptr.offset, x.len)}}
    \cup {Const(RefStr, VUnevaluated("HI", <<>>))}

BStrConsts ==
    {Const(RefU8Array(n), VScalar(Ptr(a, off))) :
        n \in {Usize(3), Usize(2), Const(TUint("Usize"), VUnevaluated("LEN", <<>>))},
        a \in AllocIds \ {"a_hi"}, off \in 0..0}
    \cup {Const(RefU8Array(Usize(2)), VScalar(Ptr("a_long", 3)))}

\* constants of the types that have no literal, and values of no scalar shape
OtherConsts ==
    {Const(TTuple(<<>>), VByRef),
     Const(UnitTy, VScalar(Bits(0, U128(0)))),
     Const(UnitTy, VByRef),
     Const(TRawPtr(U8, "MutImmutable"), VScalar(Ptr("a_bytes", 1))),
     Const(TRef(UnitTy, "MutImmutable"), VScalar(Ptr("a_mixed", 0))),
     Const(TRef(TSlice(U8), "MutImmutable"),
           VScalarPair(Ptr("a_bytes", 0), Bits(UsizeBytes, U128(3)))),
     Const(TFnDef("foo", <<>>), VScalar(Bits(0, U128(0)))),
     Const(TUint("U128"), VByRef),
     Const(TTuple(<<U8, U8>>), VScalarPair(Bits(1, U128(1)), Bits(1, U128(2))))}

\* constants not yet evaluated
UnevaluatedConsts ==
    {Const(TUint("Usize"), VUnevaluated(d, s)) :
        d \in {"LEN", "BAD", "GEN", "Tr_N"}, s \in {<<>>, <<KType(TParam(0))>>, <<KType(UnitTy)>>}}

Consts == ScalarConsts \cup StrConsts \cup BStrConsts \cup OtherConsts \cup UnevaluatedConsts

\* the constants the whole-encoder specification encodes
SampleConsts ==
    OtherConsts \cup UnevaluatedConsts
    \cup {c \in StrConsts : c.val.v = "Unevaluated" \/ c.val.a.alloc_id = "a_hi"}
    \cup {c \in ScalarConsts : c.val.a.size = 1}

ReadInputs ==
    {[ptr |-> Ptr(a, off), len |-> len] :
        a \in AllocIds, off \in 0..MaxOffset, len \in 0..MaxRead}

\* length constants: those of the array types, lengths up to usize::MAX,
\* scalars wider than usize, and values that are no plain bits scalar
LenConsts ==
    ArrayLens
    \cup {Usize(n) : n \in 0..MaxRead}
    \cup {Const(TUint("Usize"), VScalar(Bits(UsizeBytes, Pattern(UsizeBytes, 255, 255, 255)))),
          Const(TUint("Usize"), VScalar(Bits(U128Bytes, Pattern(UsizeBytes + 1, 2, 0, 1)))),
          Const(TUint("Usize"), VScalar(Bits(U128Bytes, AllOnes128))),
          Const(TUint("Usize"), VScalar(Ptr("a_bytes", 0))),
          Const(TUint("Usize"), VScalarPair(Ptr("a_bytes", 0), Bits(UsizeBytes, U128(3)))),
          Const(TUint("Usize"), VByRef),
          Const(TUint("Usize"), VUnevaluated("HI", <<>>))}

(***************************************************************************)
(* The encoding pass: the caller (the function-body encoder, the driver)   *)
(* calls the encoders in any order on one MirState, until a panic.         *)
(***************************************************************************)
Call(fn, arg) == [fn |-> fn, arg |-> arg]

\* the bytes read_static_memory returns, or its panic
read_result(r, ms) == IF r.ok THEN Ok([bytes |-> r.mem], ms) ELSE Panicked(ms)

\* the length eval_array_len returns, or its panic
len_result(r, ms) == IF r.ok THEN Ok([len |-> r.len], ms) ELSE Panicked(ms)

\* what the entry point `c.fn` returns on `c.arg`, and the side-table after
Encode(c, ms) ==
    CASE c.fn = "ty" -> ty_to_json(c.arg, ms)
      [] c.fn = "const" -> const_to_json(c.arg, ms)
      [] c.fn = "generics" -> generics_to_json(c.arg, ms)
      [] c.fn = "predicates" -> predicates_to_json(c.arg, ms)
      [] c.fn = "assoc_item" -> assoc_item_json(c.arg, ms)
      [] c.fn = "adt" -> adt_tojson(adt_def(c.arg.adt), ms, c.arg.substs)
      [] c.fn = "read" -> read_result(read_static_memory(c.arg.ptr, c.arg.len), ms)

\* the call c returns r: its value, and the side-table it left; a panic
\* aborts the pass
Return(c, r) ==
    /\ ~aborted
    /\ call' = c
    /\ ret' = [ok |-> r.ok, j |-> r.j]
    /\ used_types' = r.ms
    /\ aborted' = ~r.ok
    /\ UNCHANGED wvars

EncodeTy == \E t \in Tys : Return(Call("ty", t), ty_to_json(t, used_types))

EncodeConst ==
    \E c \in SampleConsts : Return(Call("const", c), const_to_json(c, used_types))

EncodeGenerics ==
    \E g \in GenericsInputs : Return(Call("generics", g), generics_to_json(g, used_types))

EncodePredicates ==
    \E p \in PredicatesInputs :
        Return(Call("predicates", p), predicates_to_json(p, used_types))

EncodeAssocItem ==
    \E i \in AssocItems : Return(Call("assoc_item", i), assoc_item_json(i, used_types))

EncodeAdt ==
    \E a \in AdtInputs :
        Return(Call("adt", a), adt_tojson(adt_def(a.adt), used_types, a.substs))

EncodeAnyConst ==
    \E c \in Consts : Return(Call("const", c), const_to_json(c, used_types))

ReadStaticMemory ==
    \E r \in ReadInputs :
        Return(Call("read", r),
               read_result(read_static_memory(r.ptr, r.len), used_types))

EvalArrayLen ==
    \E c \in LenConsts :
        Return(Call("array_len", c), len_result(eval_array_len(c), used_types))

\* the pass has not begun
InitPass ==
    /\ used_types = {}
    /\ call = Call("none", <<>>)
    /\ ret = [ok |-> TRUE, j |-> [none |-> TRUE]]
    /\ aborted = FALSE

\* the wrapper is in the exporting compilation of a normal build, which has
\* come to after_analysis
InCompilation ==
    /\ argv = <<"rustc", "--target", "lib.rs">>
    /\ library_path = None
    /\ args = <<"rustc", "--target", "lib.rs", "--cfg", "crux">>
    /\ pc = "normal_build"
    /\ test_idx = 0
    /\ test_path = NoneOpt
    /\ data = NoneOpt
    /\ steps = <<>>

Init == InitPass /\ InCompilation

Next ==
    \/ EncodeTy
    \/ EncodeConst
    \/ EncodeGenerics
    \/ EncodePredicates
    \/ EncodeAssocItem
    \/ EncodeAdt

\* the whole encoder
Spec == Init /\ [][Next]_vars

NextConst ==
    \/ EncodeAnyConst
    \/ ReadStaticMemory
    \/ EvalArrayLen

\* the Constant Evaluator, the Static Memory Reader and the array lengths
SpecConst == Init /\ [][NextConst]_vars

(***************************************************************************)
(* The rustc wrapper, fn go of mir-json-rustc-wrapper.rs.  What lies        *)
(* outside the wrapper (exec, the compiler driver, the linker of the MIR   *)
(* files, the file system) succeeds or fails as it will; an unwrap or an   *)
(* expect on a failure panics and ends the process.                        *)
(***************************************************************************)
\* args.iter().position(|s| s == x), counted from 1; 0 for None
RECURSIVE position(_, _)
position(v, x) ==
    IF v = <<>> THEN 0
    ELSE IF Head(v) = x THEN 1
    ELSE IF position(Tail(v), x) = 0 THEN 0
    ELSE 1 + position(Tail(v), x)

\* Vec::remove(idx)
remove(v, idx) == SubSeq(v, 1, idx - 1) \o SubSeq(v, idx + 1, Len(v))

\* a path: its directory, and the stem and the extension of its file name
Path(parent, stem, ext) == [parent |-> parent, stem |-> stem, ext |-> ext]

\* Path::with_extension: the extension follows the stem and a dot
with_extension(path, ext) == [path EXCEPT !.ext = ext]

\* Path::file_name
file_name(path) ==
    IF path.ext = "" THEN path.stem ELSE path.stem \o "." \o path.ext

\* out_filename of the test binary
OutputPath == Path("target/debug/deps", "lib-0f3a", "")

\* analyz::AnalysisData: the MIR file of the crate and those of its externs
AnalysisData(mir_path, extern_mir_paths) ==
    [mir_path |-> mir_path, extern_mir_paths |-> extern_mir_paths]

AnalysisDatas ==
    {AnalysisData(Path("target/debug/deps", "lib-0f3a", "mir"), e) :
        e \in {<<>>, <<Path("target/debug/deps", "libdep-77c1", "mir")>>}}

\* what the wrapper ran or wrote
Exec(program, a, ok) == [op |-> "exec", program |-> program, args |-> a, ok |-> ok]

RunCompiler(a, callbacks, ok) ==
    [op |-> "run_compiler", callbacks |-> callbacks, args |-> a, ok |-> ok]

LinkCrates(inputs, out_path, ok) ==
    [op |-> "link_mirs", inputs |-> inputs, out_path |-> out_path, ok |-> ok]

TestScript(script_path, json_name, ok) ==
    [op |-> "write_test_script", script_path |-> script_path,
     json_name |-> json_name, ok |-> ok]

\* one statement block of go(): the argument vector, the position, and the
\* step performed, if any
Goto(next_pc, next_args, performed) ==
    /\ pc' = next_pc
    /\ args' = next_args
    /\ steps' = steps \o performed
    /\ UNCHANGED <<argv, library_path, evars>>

\* no "--target": exec of the real compiler, args[0], on args[1..]
HostBuild ==
    /\ pc = "go"
    /\ position(args, "--target") = 0
    /\ UNCHANGED <<test_idx, test_path, data>>
    /\ IF args = <<>>
       THEN Goto("panicked", args, <<>>)
       ELSE \E ok \in BOOLEAN :
              Goto(IF ok THEN "execed" ELSE "panicked", args,
                   <<Exec(args[1], Tail(args), ok)>>)

\* the arguments every build step has
with_cfg_crux(a, lib) ==
    a \o <<"--cfg", "crux">> \o (IF lib = None THEN <<>> ELSE <<"-L", lib>>)

\* `--cfg crux`, the library path, and the match on the position of "--test"
Prepare ==
    /\ pc = "go"
    /\ position(args, "--target") # 0
    /\ test_idx' = position(with_cfg_crux(args, library_path), "--test")
    /\ UNCHANGED <<test_path, data>>
    /\ Goto(IF test_idx' = 0 THEN "normal_build" ELSE "get_output_path",
            with_cfg_crux(args, library_path), <<>>)

\* the normal build: one exporting compilation
NormalBuild ==
    /\ pc = "normal_build"
    /\ UNCHANGED <<test_idx, test_path, data>>
    /\ \E ok \in BOOLEAN :
          Goto(IF ok THEN "done" ELSE "panicked", args,
               <<RunCompiler(args, "MirJsonCallbacks", ok)>>)

\* fn get_output_path: a compilation that stops after analysis; the result
\* and the output path are unwrapped
GetOutputPath ==
    /\ pc = "get_output_path"
    /\ UNCHANGED <<test_idx, data>>
    /\ \E r \in {"err", "no_output_path", "ok"} :
          /\ test_path' = IF r = "ok" THEN Some(OutputPath) ELSE NoneOpt
          /\ Goto(IF r = "ok" THEN "test_build" ELSE "panicked", args,
                  <<RunCompiler(args, "GetOutputPathCallbacks", r # "err")>>)

\* the arguments of the test build's exporting compilation
test_build_args(a, idx) ==
    remove(a, idx) \o <<"--cfg", "crux_top_level", "--crate-type", "rlib">>

\* the test build's exporting compilation; the result is unwrapped and the
\* analysis data expected
TestBuild ==
    /\ pc = "test_build"
    /\ UNCHANGED <<test_idx, test_path>>
    /\ \E ok \in BOOLEAN, d \in {NoneOpt} \cup {Some(x) : x \in AnalysisDatas} :
          /\ data' = IF ok THEN d ELSE NoneOpt
          /\ Goto(IF ok /\ d.some THEN "link_mirs" ELSE "panicked",
                  test_build_args(args, test_idx),
                  <<RunCompiler(test_build_args(args, test_idx),
                                "MirJsonCallbacks", ok)>>)

\* fn link_mirs on the main and extern MIR files
LinkMirs ==
    /\ pc = "link_mirs"
    /\ UNCHANGED <<test_idx, test_path, data>>
    /\ \E ok \in BOOLEAN :
          Goto(IF ok THEN "write_test_script" ELSE "panicked", args,
               <<LinkCrates(<<data.x.mir_path>> \o data.x.extern_mir_paths,
                            with_extension(test_path.x, ".linked-mir.json"), ok)>>)

\* fn write_test_script, its result unwrapped
WriteTestScript ==
    /\ pc = "write_test_script"
    /\ UNCHANGED <<test_idx, test_path, data>>
    /\ \E ok \in BOOLEAN :
          Goto(IF ok THEN "done" ELSE "panicked", args,
               <<TestScript(test_path.x,
                            file_name(with_extension(test_path.x, ".linked-mir.json")),
                            ok)>>)

\* the strings of an argument vector
ArgPool == {"rustc", "--target", "--test", "lib.rs"}

RECURSIVE ArgVectors(_)
ArgVectors(n) ==
    IF n = 0 THEN {<<>>}
    ELSE ArgVectors(n - 1)
         \cup {Append(v, a) : v \in {x \in ArgVectors(n - 1) : Len(x) = n - 1},
                              a \in ArgPool}

\* CRUX_RUST_LIBRARY_PATH: unset, or a directory
LibraryPaths == {None, "rlibs", "--test"}

\* the process begins: go() has collected its arguments
InitWrapper ==
    /\ InitPass
    /\ argv \in ArgVectors(MaxArgs)
    /\ library_path \in LibraryPaths
    /\ args = argv
    /\ pc = "go"
    /\ test_idx = 0
    /\ test_path = NoneOpt
    /\ data = NoneOpt
    /\ steps = <<>>

NextWrapper ==
    \/ HostBuild
    \/ Prepare
    \/ NormalBuild
    \/ GetOutputPath
    \/ TestBuild
    \/ LinkMirs
    \/ WriteTestScript

\* the rustc wrapper
SpecWrapper == InitWrapper /\ [][NextWrapper]_vars

(***************************************************************************)
(* The generics and the predicates of a definition with a parent chain.    *)
(***************************************************************************)
\* the flattened parameter list the encoder emits for the definition d
FlattenedParams(d) == generics_to_json(generics_of(d), {}).j.params

\* the list before the own entries of g: the parent's flattened list
ParentParams(g) == IF g.parent = None THEN <<>> ELSE FlattenedParams(g.parent)

OwnParamRecord(p) == [param_def |-> p.name, def_id |-> DefPathTable[p.def_id]]

\* C1: the parameter list emitted for generics with a parent is the list
\* emitted for the parent followed by the own parameters in declaration
\* order, and without a parent it is the own parameters alone.
C1_GenericsParentThenSelf ==
    (call.fn = "generics" /\ ret.ok) =>
        /\ Len(ret.j.params) = Len(ParentParams(call.arg)) + Len(call.arg.params)
        /\ SubSeq(ret.j.params, 1, Len(ParentParams(call.arg))) = ParentParams(call.arg)
        /\ \A i \in 1..Len(call.arg.params) :
              ret.j.params[Len(ParentParams(call.arg)) + i]
                  = OwnParamRecord(call.arg.params[i])

\* generics two own parameters long under a chain of three ancestors were
\* flattened, the ancestors' parameters first
C1_Witness ==
    /\ call.fn = "generics" /\ ret.ok
    /\ call.arg.parent = "Tr_f_closure"
    /\ Len(call.arg.params) = 2
    /\ call.arg.params[1] # call.arg.params[2]
    /\ Len(ret.j.params) = 5
    /\ ret.j.params[1].param_def = "Self"
    /\ ret.j.params[3].param_def = "B"

\* the predicate list the encoder emits for the definition d
FlattenedPreds(d) == predicates_to_json(predicates_of(d), {}).j.predicates

ParentPreds(p) == IF p.parent = None THEN <<>> ELSE FlattenedPreds(p.parent)

OwnPreds(p) == preds_to_json(p.predicates, {}).j

\* C2: the predicate list is composed as the generics list is: the
\* predicates of the parent chain, outermost first, then the own predicates.
C2_PredicatesParentThenSelf ==
    (call.fn = "predicates" /\ ret.ok) =>
        ret.j.predicates = ParentPreds(call.arg) \o OwnPreds(call.arg)

(***************************************************************************)
(* The references to aggregates in the emitted type records.               *)
(***************************************************************************)
RECURSIVE AdtRecords(_)
RECURSIVE AdtRecordsOfList(_)

\* the records of kind "Adt" in the entries of an emitted list
AdtRecordsOfList(l) == UNION {AdtRecords(l[i]) : i \in DOMAIN l}

\* the records of kind "Adt" in an emitted type or constant record, at top
\* level and in every position a type is nested in
AdtRecords(j) ==
    CASE j.kind = "Adt" -> {j} \cup AdtRecordsOfList(j.substs)
      [] j.kind = "Tuple" -> AdtRecordsOfList(j.tys)
      [] j.kind \in {"Slice", "Ref", "RawPtr"} -> AdtRecords(j.ty)
      [] j.kind = "Array" -> AdtRecords(j.ty) \cup AdtRecords(j.size)
      [] j.kind = "Const" ->
            AdtRecords(j.ty)
            \cup (IF "initializer" \in DOMAIN j
                  THEN AdtRecordsOfList(j.initializer.substs) ELSE {})
      [] j.kind \in {"FnDef", "Projection", "UnnormalizedProjection"} ->
            AdtRecordsOfList(j.substs)
      [] j.kind = "Closure" -> AdtRecordsOfList(j.closuresubsts)
      [] j.kind = "FnPtr" ->
            AdtRecordsOfList(j.signature.inputs) \cup AdtRecords(j.signature.output)
      [] OTHER -> {}

\* C3: after any sequence of type encodings, every record of kind "Adt" in
\* the record just emitted, at top level or nested, names an aggregate that
\* is in the used-types side-table, and holds the kind, the name and the
\* substitution list only: no variants, no fields.
C3_AdtRefsRecorded ==
    (call.fn \in {"ty", "const"} /\ ret.ok) =>
        \A r \in AdtRecords(ret.j) :
            /\ DOMAIN r = {"kind", "name", "substs"}
            /\ \E d \in used_types : DefPathTable[d] = r.name

\* a reference type was encoded whose record holds references to two
\* aggregates, one nested in the substitution of the other
C3_Witness ==
    /\ call.fn = "ty" /\ ret.ok
    /\ ret.j.kind = "Ref"
    /\ ret.j.ty.kind = "Adt"
    /\ Cardinality({r.name : r \in AdtRecords(ret.j)}) = 2
    /\ Cardinality(used_types) >= 2

(***************************************************************************)
(* The Static Memory Reader and the literals of the constants.             *)
(***************************************************************************)
\* a relocation over [from, to) lies within or touches the range [start, end)
Touches(rel, start, end) == rel.from <= end /\ start <= rel.to

\* the range of a read is in the bounds of its allocation, and no relocation
\* of the allocation lies within it or touches it
ReadableRange(ptr, len) ==
    /\ ptr.offset + len <= Len(AllocMap[ptr.alloc_id].bytes)
    /\ \A rel \in AllocMap[ptr.alloc_id].relocations :
          ~Touches(rel, ptr.offset, ptr.offset + len)

\* C4: a read is refused exactly when its range is out of the allocation's
\* bounds or a relocation lies within or touches the range; any other read
\* returns the bytes of the range, whatever relocations the allocation
\* holds elsewhere.
C4_ReadRefusedExactly ==
    call.fn = "read" =>
        /\ ret.ok <=> ReadableRange(call.arg.ptr, call.arg.len)
        /\ ret.ok =>
              ret.j.bytes = SubSeq(AllocMap[call.arg.ptr.alloc_id].bytes,
                                   call.arg.ptr.offset + 1,
                                   call.arg.ptr.offset + call.arg.len)

\* one pass of schoolbook division by ten over the bytes m, most significant
\* first: the quotient (least significant byte first) and the remainder
RECURSIVE DivTen(_, _, _, _)
DivTen(m, i, rem, acc) ==
    IF i = 0 THEN [q |-> acc, r |-> rem]
    ELSE DivTen(m, i - 1, (rem * 256 + m[i]) % 10,
                <<(rem * 256 + m[i]) \div 10>> \o acc)

RECURSIVE DecimalDigits(_)
DecimalDigits(m) ==
    IF \A i \in DOMAIN m : m[i] = 0 THEN ""
    ELSE LET d == DivTen(m, Len(m), 0, <<>>)
         IN  DecimalDigits(d.q) \o DigitChar[d.r + 1]

\* the decimal string of the number with the little-endian bytes m
DecimalOf(m) == IF \A i \in DOMAIN m : m[i] = 0 THEN "0" ELSE DecimalDigits(m)

\* 2^(8w) - b for the w bytes b, b # 0: subtraction with borrow
RECURSIVE Complement(_, _, _)
Complement(b, i, borrow) ==
    IF i > Len(b) THEN <<>>
    ELSE <<(256 - b[i] - borrow) % 256>>
         \o Complement(b, i + 1, IF b[i] + borrow > 0 THEN 1 ELSE 0)

\* the decimal string of the w bytes b read as a two's-complement value
SignedDecimalOf(b) ==
    IF b[Len(b)] >= 128 THEN "-" \o DecimalOf(Complement(b, 1, 0)) ELSE DecimalOf(b)

\* the declared width of an integer, bool or char type
WidthOf(ty) ==
    CASE ty.sty = "Int" -> IntSize[ty.int]
      [] ty.sty = "Uint" -> UintSize[ty.uint]
      [] ty.sty = "Bool" -> 1
      [] ty.sty = "Char" -> 4

\* the call encoded a scalar constant of an integer, bool or char type
IsIntegerScalarCall ==
    /\ call.fn = "const"
    /\ call.arg.ty.sty \in {"Int", "Uint", "Bool", "Char"}
    /\ call.arg.val.v = "Scalar"
    /\ call.arg.val.a.s = "Bits"

\* C5: the int_val of a scalar constant of width w is the decimal string of
\* its bits read as a w-byte two's-complement value if the declared type is
\* a signed integer, and of the bits unchanged if it is bool, char or an
\* unsigned integer.
C5_IntValRendering ==
    IsIntegerScalarCall =>
        /\ ret.ok
        /\ "int_val" \in DOMAIN ret.j
        /\ call.arg.val.a.size = WidthOf(call.arg.ty)
        /\ ret.j.int_val =
              IF call.arg.ty.sty = "Int"
              THEN SignedDecimalOf(LowBytes(call.arg.val.a.bits, WidthOf(call.arg.ty)))
              ELSE DecimalOf(LowBytes(call.arg.val.a.bits, WidthOf(call.arg.ty)))

\* a signed constant one byte wide with the bits 0xFF was rendered "-1"
C5_Witness ==
    /\ IsIntegerScalarCall /\ ret.ok
    /\ call.arg.ty = TInt("I8")
    /\ call.arg.val.a.bits = U128(255)
    /\ ret.j.int_val = "-1"

LiteralFields == {"int_val", "float_val", "str_val", "bstr_val"}

\* the value the constant c evaluates to, where the evaluation succeeds
Forces(c) == c.val.v # "Unevaluated" \/ do_const_eval(c.val.def_id, c.val.substs).ok

ForcedVal(c) ==
    IF c.val.v = "Unevaluated"
    THEN do_const_eval(c.val.def_id, c.val.substs).c.val
    ELSE c.val

\* the evaluated value has the shape the declared type renders from: a
\* scalar for integer, bool, char and float, pointer and length for &str,
\* a pointer for &[u8; N]
Renderable(ty, val) ==
    \/ /\ ty.sty \in {"Int", "Uint", "Bool", "Char", "Float"}
       /\ val.v = "Scalar" /\ val.a.s = "Bits"
    \/ /\ IsRefStr(ty)
       /\ val.v = "ScalarPair" /\ val.a.s = "Ptr" /\ val.b.s = "Bits"
    \/ /\ IsRefU8Array(ty)
       /\ val.v = "Scalar" /\ val.a.s = "Ptr"

\* C6: the record of a constant whose evaluation succeeds is produced and
\* carries exactly one literal field if the evaluated value has a renderable
\* shape for the declared type, and none otherwise.
C6_OneLiteralOrNone ==
    (call.fn = "const" /\ Forces(call.arg)) =>
        /\ ret.ok
        /\ Cardinality(DOMAIN ret.j \cap LiteralFields)
              = IF Renderable(call.arg.ty, ForcedVal(call.arg)) THEN 1 ELSE 0

(***************************************************************************)
(* The "implements" link of the associated items.                          *)
(***************************************************************************)
\* the items of the trait the item's container implements, none if the
\* container is a trait or an inherent impl
ImplementedTraitItems(item) ==
    IF item.container.c = "ImplContainer" /\ impl_trait_ref(item.container.did).some
    THEN associated_items(impl_trait_ref(item.container.did).x.def_id)
    ELSE <<>>

\* the positions of the trait's members that bear the name of the item
SameNamed(item) ==
    {i \in DOMAIN ImplementedTraitItems(item) :
        ImplementedTraitItems(item)[i].name = item.name}

Last(S) == CHOOSE i \in S : \A k \in S : k <= i

\* C7: the record of an associated item whose container is an impl of a
\* trait that declares a member of the item's name has an "implements"
\* field, the identifier of that member (of the last one, if the trait
\* declares several); for an inherent impl, a trait, or a trait with no
\* member of the name, the record has no "implements" field. The encoding
\* fails in neither case.
C7_ImplementsLinkage ==
    call.fn = "assoc_item" =>
        /\ ret.ok
        /\ IF SameNamed(call.arg) # {}
           THEN /\ "implements" \in DOMAIN ret.j
                /\ ret.j.implements =
                      DefPathTable[
                          ImplementedTraitItems(call.arg)[Last(SameNamed(call.arg))].def_id]
           ELSE "implements" \notin DOMAIN ret.j

\* a method of an impl of a trait that declares a type and a method of the
\* method's name was encoded, and linked
C7_Witness ==
    /\ call.fn = "assoc_item" /\ ret.ok
    /\ call.arg.container = ImplContainer("ImplDup")
    /\ Cardinality(SameNamed(call.arg)) = 2
    /\ "implements" \in DOMAIN ret.j
    /\ ret.j.implements = DefPathTable["Dup_g_fn"]

(***************************************************************************)
(* The type trees the Type Encoder returns a record for.                   *)
(***************************************************************************)
RECURSIVE ForcingFailsIn(_)
RECURSIVE ForcingFailsInKinds(_)
RECURSIVE ForcingFailsInConst(_)

ForcingFailsInKinds(l) ==
    \E i \in DOMAIN l : l[i].k = "Type" /\ ForcingFailsIn(l[i].ty)

\* the constant c is unevaluated and its evaluation fails, or its type or
\* its substitution holds an array length of which this is so
ForcingFailsInConst(c) ==
    \/ ForcingFailsIn(c.ty)
    \/ /\ c.val.v = "Unevaluated"
       /\ \/ ForcingFailsInKinds(c.val.substs)
          \/ ~InstanceResolve(c.val.def_id, c.val.substs).some
          \/ ~ConstEval(InstanceResolve(c.val.def_id, c.val.substs).x).some

\* the type tree t holds an array whose length is an unevaluated constant
\* the evaluation of which fails
ForcingFailsIn(t) ==
    CASE t.sty = "Array" -> ForcingFailsIn(t.ty) \/ ForcingFailsInConst(t.size)
      [] t.sty = "Tuple" -> \E i \in DOMAIN t.tys : ForcingFailsIn(t.tys[i])
      [] t.sty \in {"Slice", "Ref", "RawPtr"} -> ForcingFailsIn(t.ty)
      [] t.sty \in {"Adt", "FnDef", "Closure", "Projection", "UnnormalizedProjection"} ->
            ForcingFailsInKinds(t.substs)
      [] t.sty = "FnPtr" ->
            \/ \E i \in DOMAIN t.sig.inputs : ForcingFailsIn(t.sig.inputs[i])
            \/ ForcingFailsIn(t.sig.output)
      [] OTHER -> FALSE

\* C8 as stated: the Type Encoder returns a record for every type tree.
C8_TypeEncodingNeverAborts ==
    call.fn = "ty" => ret.ok

\* C8: the Type Encoder returns a record for every type tree, a record of
\* the kind alone for a kind it has no model of, unless the tree holds an
\* array whose length is an unevaluated constant the evaluation of which
\* fails: then, and only then, the encoding aborts the pass.
C8_TypeEncodingAbortsOnlyOnForcing ==
    call.fn = "ty" =>
        /\ ret.ok <=> ~ForcingFailsIn(call.arg)
        /\ aborted <=> ForcingFailsIn(call.arg)
        /\ ret.ok => ret.j.kind = call.arg.sty
        /\ (ret.ok /\ call.arg \in UnmodeledTys) => DOMAIN ret.j = {"kind"}

\* an array was encoded whose length is an unevaluated constant that
\* evaluates: the record holds the initializer and the length
C8_Witness ==
    /\ call.fn = "ty" /\ ret.ok
    /\ call.arg.sty = "Array"
    /\ call.arg.size.val.v = "Unevaluated"
    /\ "initializer" \in DOMAIN ret.j.size
    /\ ret.j.size.int_val = "3"

(***************************************************************************)
(* The records of the Aggregate Definition Encoder.                        *)
(***************************************************************************)
\* the variants of the aggregate the call encoded, as declared
DeclaredVariants == adt_def(call.arg.adt).variants

\* the record of the type t, encoded on its own
TyRecord(t) == ty_to_json(t, {}).j

\* variants and fields are emitted all, and in declaration order
InDeclarationOrder ==
    /\ ret.j.name = DefPathTable[call.arg.adt]
    /\ Len(ret.j.variants) = Len(DeclaredVariants)
    /\ \A v \in DOMAIN DeclaredVariants :
          /\ ret.j.variants[v].name = DefPathTable[DeclaredVariants[v].did]
          /\ Len(ret.j.variants[v].fields) = Len(DeclaredVariants[v].fields)
          /\ \A f \in DOMAIN DeclaredVariants[v].fields :
                ret.j.variants[v].fields[f].name
                    = DefPathTable[DeclaredVariants[v].fields[f]]

\* every field record holds the type FieldTy gives for the field, and the
\* substitution list of the call
FieldsHold(FieldTy(_)) ==
    \A v \in DOMAIN DeclaredVariants :
        \A f \in DOMAIN DeclaredVariants[v].fields :
            /\ ret.j.variants[v].fields[f].ty
                  = TyRecord(FieldTy(DeclaredVariants[v].fields[f]))
            /\ ret.j.variants[v].fields[f].substs
                  = substs_to_json(call.arg.substs, {}).j

\* the declared type of a field with the substitution of the call applied
SubstitutedFieldTy(f) == SubstTy(type_of(f), call.arg.substs)

\* C9 as stated: the variants and the fields are emitted in declaration
\* order, and the type of each field record is the declared type of the
\* field with the substitution list applied to it.
C9_FieldTypesSubstituted ==
    (call.fn = "adt" /\ ret.ok) =>
        InDeclarationOrder /\ FieldsHold(SubstitutedFieldTy)

\* some declared field type, or the substitution list, holds an array
\* length the evaluation of which fails
AdtForcingFails ==
    \/ \E v \in DOMAIN DeclaredVariants :
          \E f \in DOMAIN DeclaredVariants[v].fields :
              \/ ForcingFailsIn(type_of(DeclaredVariants[v].fields[f]))
              \/ ForcingFailsInKinds(call.arg.substs)

\* C9: the variants and the fields are emitted in declaration order; the
\* type of each field record is the declared type of the field as it
\* stands, generic parameters left in place, and beside it the record holds
\* the substitution list, not applied. The encoding aborts if and only if
\* the encoding of a declared field type does.
C9_FieldTypesDeclared ==
    call.fn = "adt" =>
        /\ ret.ok <=> ~AdtForcingFails
        /\ ret.ok => InDeclarationOrder /\ FieldsHold(type_of)

\* an aggregate of two generic fields was encoded under a substitution of
\* two different types: the field records differ from the substituted ones
C9_Witness ==
    /\ call.fn = "adt" /\ ret.ok
    /\ call.arg.adt = "Pair"
    /\ Len(call.arg.substs) = 2
    /\ call.arg.substs[1] # call.arg.substs[2]
    /\ ret.j.variants[1].fields[1].ty = [kind |-> "Param", param |-> 0]
    /\ ret.j.variants[1].fields[2].ty.kind = "Ref"
    /\ ret.j.variants[1].fields[1].ty # TyRecord(SubstitutedFieldTy("Pair_a"))

(***************************************************************************)
(* Determinism.                                                            *)
(***************************************************************************)
\* C10: the record a call returns, or its abort, is the one the same call
\* returns under every content of the used-types side-table, whatever was
\* encoded before it.
C10_Deterministic ==
    call.fn # "none" =>
        \A ms \in SUBSET AdtDids :
            /\ Encode(call, ms).ok = ret.ok
            /\ Encode(call, ms).j = ret.j

\* an aggregate was encoded that an earlier encoding had recorded as used
C10_Witness ==
    /\ call.fn = "adt" /\ ret.ok
    /\ call.arg.adt = "Opt"
    /\ call.arg.substs # <<>>
    /\ "Opt" \in used_types

(***************************************************************************)
(* Forcing a constant.                                                     *)
(***************************************************************************)
\* the engine on (identifier, substitution): resolution, then evaluation
EngineFails(def_id, substs) ==
    \/ ~InstanceResolve(def_id, substs).some
    \/ ~ConstEval(InstanceResolve(def_id, substs).x).some

EngineValue(def_id, substs) == ConstEval(InstanceResolve(def_id, substs).x).x

IsConstCall == call.fn = "const"

IsUnevaluatedCall == IsConstCall /\ call.arg.val.v = "Unevaluated"

\* the record without its "initializer" field
WithoutInitializer(j) == [k \in DOMAIN j \ {"initializer"} |-> j[k]]

\* the constant of the declared type of c with the value the engine gives
ForcedConst(c) == Const(c.ty, EngineValue(c.val.def_id, c.val.substs).val)

\* C11: an unevaluated constant whose resolution or evaluation fails aborts
\* the pass with no record; one that evaluates yields, beside its
\* initializer, exactly what the constant of the evaluated value yields; a
\* constant whose value is a concrete integer scalar yields a record with no
\* initializer whatever the engine holds.
C11_ForcedOnlyWhenUnevaluated ==
    /\ (IsUnevaluatedCall /\ EngineFails(call.arg.val.def_id, call.arg.val.substs))
            => (~ret.ok /\ aborted)
    /\ (IsUnevaluatedCall /\ ~EngineFails(call.arg.val.def_id, call.arg.val.substs))
            => /\ ret.ok = Encode(Call("const", ForcedConst(call.arg)), {}).ok
               /\ ret.ok =>
                    /\ "initializer" \in DOMAIN ret.j
                    /\ WithoutInitializer(ret.j)
                          = Encode(Call("const", ForcedConst(call.arg)), {}).j
    /\ (IsConstCall /\ call.arg.val.v = "Scalar" /\ call.arg.val.a.s = "Bits"
           /\ call.arg.ty.sty \in {"Int", "Uint", "Bool", "Char"})
            => (ret.ok /\ "initializer" \notin DOMAIN ret.j)

\* the string constant HI was forced and rendered from the evaluated value
C11_Witness ==
    /\ IsUnevaluatedCall /\ call.arg.val.def_id = "HI"
    /\ ret.ok /\ ret.j.str_val = <<104, 105>>
    /\ "initializer" \in DOMAIN ret.j

\* a constant that does not resolve has aborted the pass
C11_AbortWitness ==
    /\ IsUnevaluatedCall /\ call.arg.val.def_id = "Tr_N"
    /\ EngineFails("Tr_N", call.arg.val.substs)
    /\ aborted

(***************************************************************************)
(* The payload of an associated item's record, by kind.                    *)
(***************************************************************************)
IsAssocItemRecord == call.fn = "assoc_item" /\ ret.ok

\* the item has a default value or is final
HasValue(item) ==
    item.defaultness = Final \/ item.defaultness = DefaultValue

\* C12: the record of an associated item names its kind; a Type item
\* carries "type" if and only if it has a default value or is final, a Const
\* item carries "type", a Method item carries "signature", an Existential
\* item carries neither.
C12_PayloadByKind ==
    IsAssocItemRecord =>
        /\ ret.j.kind = call.arg.kind
        /\ call.arg.kind = "Type" =>
                ("type" \in DOMAIN ret.j <=> HasValue(call.arg))
        /\ call.arg.kind = "Const" => "type" \in DOMAIN ret.j
        /\ call.arg.kind = "Method" => "signature" \in DOMAIN ret.j
        /\ call.arg.kind = "Existential" =>
                DOMAIN ret.j \cap {"type", "signature"} = {}

\* an associated type declared without a default was encoded: kind "Type"
\* and no "type"
C12_Witness ==
    /\ IsAssocItemRecord
    /\ call.arg.kind = "Type" /\ call.arg.defaultness = DefaultNoValue
    /\ ret.j.kind = "Type" /\ "type" \notin DOMAIN ret.j

(***************************************************************************)
(* The bytes of the string and byte-string literals.                       *)
(***************************************************************************)
\* the len bytes of ptr's allocation from ptr's offset on
BytesAt(ptr, len) == [i \in 1..len |-> AllocMap[ptr.alloc_id].bytes[ptr.offset + i]]

\* the number a small u128 holds
SmallNat(bits) == bits[1] + 256 * bits[2]

\* the length an array length constant resolves to, forced if unevaluated
ResolvedLen(len_const) == SmallNat(ForcedVal(len_const).a.bits)

\* the allocation holds no relocation and the range lies within its bytes
CleanRange(ptr, len) ==
    /\ AllocMap[ptr.alloc_id].relocations = {}
    /\ ptr.offset + len <= Len(AllocMap[ptr.alloc_id].bytes)

IsStrCall ==
    /\ call.fn = "const" /\ IsRefStr(call.arg.ty) /\ Forces(call.arg)
    /\ ForcedVal(call.arg).v = "ScalarPair"

IsBStrCall ==
    /\ call.fn = "const" /\ IsRefU8Array(call.arg.ty) /\ Forces(call.arg)
    /\ ForcedVal(call.arg).v = "Scalar" /\ ForcedVal(call.arg).a.s = "Ptr"
    /\ Forces(call.arg.ty.ty.size)

\* C13: the str_val of a &str constant of value (p, n) is the n bytes of
\* p's allocation from p's offset on, and the bstr_val of a &[u8; N]
\* constant of value p is the N bytes of p's allocation from p's offset on,
\* N being the length constant forced if unevaluated; the literal is
\* rendered whenever the range lies within an allocation with no
\* relocation.
C13_LiteralBytesExact ==
    /\ IsStrCall =>
          /\ ret.ok => ret.j.str_val
                          = BytesAt(ForcedVal(call.arg).a,
                                    SmallNat(ForcedVal(call.arg).b.bits))
          /\ CleanRange(ForcedVal(call.arg).a, SmallNat(ForcedVal(call.arg).b.bits))
                => ret.ok
    /\ IsBStrCall =>
          /\ ret.ok => ret.j.bstr_val
                          = BytesAt(ForcedVal(call.arg).a,
                                    ResolvedLen(call.arg.ty.ty.size))
          /\ CleanRange(ForcedVal(call.arg).a, ResolvedLen(call.arg.ty.ty.size))
                => ret.ok

\* a &[u8; LEN] constant, its length forced to 3, was rendered as the first
\* three of the five bytes of its allocation
C13_Witness ==
    /\ IsBStrCall /\ ret.ok
    /\ call.arg.ty.ty.size.val.v = "Unevaluated"
    /\ call.arg.val.a.alloc_id = "a_long"
    /\ ret.j.bstr_val = <<10, 11, 12>>

(***************************************************************************)
(* The length of an array.                                                 *)
(***************************************************************************)
IsArrayLenCall == call.fn = "array_len"

\* the length constant is evaluated already, or the engine evaluates it
LenForces(c) ==
    c.val.v # "Unevaluated" \/ ~EngineFails(c.val.def_id, c.val.substs)

LenForced(c) ==
    IF c.val.v = "Unevaluated"
    THEN EngineValue(c.val.def_id, c.val.substs).val
    ELSE c.val

IsPlainBits(val) == val.v = "Scalar" /\ val.a.s = "Bits"

\* the 128 bits hold a number of at most usize::MAX
WithinUsize(bits) == \A i \in ByteIdx : i > UsizeBytes => bits[i] = 0

\* the 128 bits hold a number below 2^16
WithinSmall(bits) == \A i \in ByteIdx : i > 2 => bits[i] = 0

\* C14: the length of an array is returned exactly when the length
\* constant, forced if unevaluated, is a plain bits scalar of at most
\* usize::MAX, and is then the number the bits hold; in every other case
\* (forcing fails, no plain bits scalar, more than usize::MAX) the pass
\* aborts.
C14_ArrayLenExactOrAbort ==
    IsArrayLenCall =>
        /\ ret.ok <=> /\ LenForces(call.arg)
                      /\ IsPlainBits(LenForced(call.arg))
                      /\ WithinUsize(LenForced(call.arg).a.bits)
        /\ ~ret.ok => aborted
        /\ ret.ok =>
              IF WithinSmall(LenForced(call.arg).a.bits)
              THEN ret.j.len = SmallNat(LenForced(call.arg).a.bits)
              ELSE ret.j.len >= 65536

\* the unevaluated length LEN was forced and read as 3
C14_Witness ==
    /\ IsArrayLenCall /\ ret.ok
    /\ call.arg.val.v = "Unevaluated" /\ call.arg.val.def_id = "LEN"
    /\ ret.j.len = 3

\* a scalar of more than usize::MAX has aborted the pass
C14_OverflowWitness ==
    /\ IsArrayLenCall /\ aborted
    /\ IsPlainBits(call.arg.val) /\ ~WithinUsize(call.arg.val.a.bits)

(***************************************************************************)
(* The paths of the rustc wrapper.                                         *)
(***************************************************************************)
Has(v, x) == \E i \in 1..Len(v) : v[i] = x

IsPrefix(a, b) == Len(a) <= Len(b) /\ a = SubSeq(b, 1, Len(a))

\* what a step is: the hand-over, a compilation by its callbacks, the
\* linking, the script
StepKind(step) == IF step.op = "run_compiler" THEN step.callbacks ELSE step.op

StepKinds == [i \in 1..Len(steps) |-> StepKind(steps[i])]

HostPath == <<"exec">>

NormalPath == <<"MirJsonCallbacks">>

TestPath ==
    <<"GetOutputPathCallbacks", "MirJsonCallbacks", "link_mirs", "write_test_script">>

\* an exporting compilation was given "--test"
ExportedWithTest ==
    \E i \in 1..Len(steps) :
        StepKind(steps[i]) = "MirJsonCallbacks" /\ Has(steps[i].args, "--test")

\* the test script is written only at the test binary's path, after a
\* compilation that left analysis data and a linking that completed
ScriptAfterLink ==
    \A i \in 1..Len(steps) :
        steps[i].op = "write_test_script" =>
            /\ i = 4 /\ steps[2].ok /\ data.some /\ steps[3].ok
            /\ test_path.some /\ steps[i].script_path = test_path.x

\* C15: what the wrapper has done so far is the beginning of one path, which
\* its arguments decide: without "--target" the hand-over to the real
\* compiler alone; with "--target" and without "--test" one exporting
\* compilation alone; with both the output-path extraction, an exporting
\* compilation without "--test", the linking, and then the test script.
C15_ThreePathsByArguments ==
    /\ ~Has(argv, "--target") => IsPrefix(StepKinds, HostPath)
    /\ (Has(argv, "--target") /\ ~Has(argv, "--test")) =>
            IsPrefix(StepKinds, NormalPath)
    /\ (Has(argv, "--target") /\ Has(argv, "--test")) =>
            /\ IsPrefix(StepKinds, TestPath)
            /\ ~ExportedWithTest
            /\ ScriptAfterLink

====
